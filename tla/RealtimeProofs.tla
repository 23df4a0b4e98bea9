---------------------------- MODULE RealtimeProofs ----------------------------
(***************************************************************************)
(* Type correctness and the safety properties of Realtime, for any number  *)
(* of users, workflows, connections, messages and faults.                  *)
(*                                                                         *)
(* The argument: an entry in the hash that no join is about to complete is *)
(* tracked by its socket, which will leave it, and has a row, which the    *)
(* sweep will find.  A leave or a sweep takes the entry out first, so that *)
(* nothing else is lost when it stops half way; only a join of the same    *)
(* entry can put it back behind their backs, and that join is muddled.     *)
(***************************************************************************)
EXTENDS Realtime, TLAPS

\* What the statement of a handler says of its connection.
JobFacts ==
    \A h \in Handlers :
        /\ h \in Messages => job[h].at \notin {"looping", "dropping"}
        /\ h \in Sockets /\ job[h] # Idle =>
             SocketOf(h) = h /\ conn[h] = "gone" /\ job[h].at \notin Joining \union {"beating"}
        /\ job[h] # Idle => conn[SocketOf(h)] # "away"
        /\ job[h].at \in {"addressing", "opening", "looking", "unaddressing", "ending", "beating"} =>
             ~IsGuest(SocketOf(h))

\* Only users have rows and addresses, and only sockets that have connected.
OwnerFacts ==
    /\ \A s \in Sockets : conn[s] = "away" <=> owner[s] = Nobody
    /\ \A e \in Entries :
         /\ session[e] # "none" \/ e \in sweep.left \/ e = sweep.of =>
              ~IsGuest(e[2]) /\ conn[e[2]] # "away"
         /\ e \in listed => conn[e[2]] # "away"
    /\ \A u \in Users : address[u] # Nobody => owner[address[u]] = u

\* A join and a leave of the same entry muddle it.
CrossFacts ==
    \A h, k \in Handlers :
        job[h].at \in Joining /\ job[k].at \in Leaving /\ EntryOf(h) = EntryOf(k) =>
            EntryOf(h) \in muddled

\* What joins have listed and leaves have removed.
ListFacts ==
    \A h \in Handlers :
        /\ job[h].at \in {"addressing", "opening"} => EntryOf(h) \in listed \union muddled
        /\ job[h].at \in {"unaddressing", "ending", "untracking"} =>
             EntryOf(h) \notin listed \/ EntryOf(h) \in muddled

Opens(e) == \E h \in Handlers : job[h].at \in {"addressing", "opening"} /\ EntryOf(h) = e

\* What a sweep is through with is not listed.
SweptFacts ==
    \A e \in Entries :
        sweep.at # "idle" /\ session[e] = "stale" /\ e \notin sweep.left =>
            e \notin listed \/ Opens(e) \/ e \in muddled

\* What is listed is tracked, until nobody looks any more.
TrackFacts ==
    \A s \in Sockets :
        /\ conn[s] = "closed" => job[s] = Idle
        /\ conn[s] = "closed" \/ job[s].at = "dropping" =>
             \A w \in tracked[s] : <<w, s>> \in late
        /\ \A w \in Workflows : <<w, s>> \in listed =>
             \/ w \in tracked[s] \/ At(<<w, s>>, Joining \ {"listing"})
             \/ <<w, s>> \in muddled \union late
             \/ conn[s] = "gone" /\ job[s] = Idle

SafeInv == TypeOK /\ JobFacts /\ OwnerFacts /\ CrossFacts /\ ListFacts
IInv == SafeInv /\ SweptFacts /\ TrackFacts /\ ListedIsSweepable /\ AddressIsListed

-----------------------------------------------------------------------------
LEMMA Ids ==
  /\ Sockets \intersect Messages = {}
  /\ Sockets \subseteq Handlers /\ Messages \subseteq Handlers
  /\ \A h \in Handlers : h \in Sockets \/ h \in Messages
  /\ NoEntry \notin Entries
  /\ \A e \in Entries : e[1] \in Workflows /\ e[2] \in Sockets /\ e = <<e[1], e[2]>>
  /\ \A s \in Sockets : <<GuestOf, s>> \in Entries
BY BoundsAssumption, NobodyAssumption, GuestAssumption
   DEF Sockets, Messages, Handlers, Entries, NoEntry

\* The fields of a job, by cases that the provers do not find by themselves.
LEMMA JobTypes ==
  ASSUME TypeOK, NEW h \in Handlers
  PROVE  /\ job[h].at \in Statements
         /\ job[h] = Idle <=> job[h].at = "idle"
         /\ job[h] # Idle => EntryOf(h) \in Entries /\ SocketOf(h) \in Sockets
                             /\ EntryOf(h)[1] \in Workflows
                             /\ EntryOf(h) = <<EntryOf(h)[1], SocketOf(h)>>
<1>1. job[h] \in Job
  BY DEF TypeOK
<1>2. CASE job[h] = Idle
  BY <1>2 DEF Idle, Statements
<1>3. CASE job[h] # Idle
  <2>1. job[h] \in [at : Statements \ {"idle"}, of : Entries]
    BY <1>1, <1>3 DEF Job
  <2> QED BY <1>3, <2>1, Ids DEF EntryOf, SocketOf, Idle
<1> QED BY <1>2, <1>3

LEMMA GotoTypes ==
  ASSUME TypeOK, NEW h \in Handlers, job[h] # Idle, NEW stmt \in Statements \ {"idle"}, Goto(h, stmt)
  PROVE  job' \in [Handlers -> Job]
<1>1. job[h] \in [at : Statements \ {"idle"}, of : Entries]
  BY DEF TypeOK, Job
<1>2. [job[h] EXCEPT !.at = stmt] \in Job
  BY <1>1 DEF Job
<1> QED BY <1>2 DEF Goto, TypeOK

LEMMA GotoStep ==
  ASSUME TypeOK, NEW h \in Handlers, job[h] # Idle, NEW stmt, Goto(h, stmt)
  PROVE  /\ job'[h].at = stmt /\ job'[h].of = job[h].of
         /\ \A k \in Handlers \ {h} : job'[k] = job[k]
<1>1. job[h] \in [at : Statements \ {"idle"}, of : Entries]
  BY DEF TypeOK, Job
<1>2. job'[h] = [job[h] EXCEPT !.at = stmt]
  BY DEF Goto, TypeOK
<1>3. [job[h] EXCEPT !.at = stmt].at = stmt /\ [job[h] EXCEPT !.at = stmt].of = job[h].of
  BY <1>1
<1> QED BY <1>2, <1>3 DEF Goto, TypeOK

LEMMA ReturnTypes ==
  ASSUME TypeOK, NEW h \in Handlers, Return(h)
  PROVE  job' \in [Handlers -> Job]
BY DEF Return, TypeOK, Job

LEMMA LoopTypes ==
  ASSUME TypeOK, NEW s \in Sockets, Loop(s)
  PROVE  job' \in [Handlers -> Job]
<1>1. [at |-> "looping", of |-> <<GuestOf, s>>] \in Job
  BY Ids DEF Job, Statements
<1> QED BY <1>1 DEF Loop, TypeOK

LEMMA TypeNext ==
  ASSUME TypeOK, JobFacts, OwnerFacts, [Next]_vars
  PROVE  TypeOK'
<1> USE DEF TypeOK, history
<1>t. \A e \in Entries : ~IsGuest(e[2]) /\ conn[e[2]] # "away" => owner[e[2]] \in Users
  BY Ids DEF IsGuest, OwnerFacts
<1>j. ASSUME NEW h \in Handlers, job[h] # Idle
      PROVE  /\ EntryOf(h) \in Entries /\ SocketOf(h) \in Sockets /\ EntryOf(h)[1] \in Workflows
             /\ EntryOf(h)[2] = SocketOf(h)
             /\ ~IsGuest(SocketOf(h)) => owner[SocketOf(h)] \in Users
  BY <1>j, JobTypes, <1>t DEF JobFacts, EntryOf, SocketOf
<1>f. ASSUME Fault PROVE faults' \in 0 .. MaxFaults
  BY <1>f, BoundsAssumption DEF Fault
<1>1. ASSUME NEW s \in Sockets, Connect(s) PROVE TypeOK'
  <2>1. PICK o \in Users \union {Guest} : owner' = [owner EXCEPT ![s] = o]
    BY <1>1 DEF Connect
  <2>2. \A e \in Entries : e[2] = s => session[e] = "none"
    BY <1>1 DEF Connect, OwnerFacts
  <2>3. \A e \in Entries : IsGuest(e[2])' => session[e] = "none"
    BY <2>1, <2>2, Ids DEF IsGuest
  <2> QED BY <1>1, <2>1, <2>3 DEF Connect
<1>2. ASSUME NEW m \in Messages, NEW s \in Sockets, NEW w \in Workflows,
             Join(m, s, w) \/ Leave(m, s, w) \/ Heartbeat(m, s, w)
      PROVE  TypeOK'
  <2>1. PICK stmt \in {"listing", "removing", "looking", "beating"} : Receive(m, s, w, stmt)
    BY <1>2 DEF Join, Leave, Heartbeat
  <2>2. <<w, s>> \in Entries /\ m \in Handlers
    BY Ids DEF Entries
  <2>3. [at |-> stmt, of |-> <<w, s>>] \in Job
    BY <2>2 DEF Job, Statements
  <2>4. job' \in [Handlers -> Job] /\ begun' \in 0 .. MaxBegun
    BY <2>1, <2>2, <2>3, BoundsAssumption DEF Receive
  <2>5. muddled' \in SUBSET Entries
    BY <1>2, <2>2 DEF Join, Leave, Heartbeat
  <2> QED BY <2>1, <2>4, <2>5 DEF Receive, IsGuest
<1>3. ASSUME NEW s \in Sockets, Disconnect(s) PROVE TypeOK'
  BY <1>3, LoopTypes DEF Disconnect, IsGuest
<1>4. ASSUME NEW h \in Handlers, Beat(h) \/ JoinOpens(h) \/ LeaveEnds(h) PROVE TypeOK'
  <2>1. job[h].at \in {"beating", "opening", "ending"}
    BY <1>4 DEF Beat, JoinOpens, LeaveEnds
  <2>2. job[h] # Idle /\ ~IsGuest(SocketOf(h))
    BY <2>1, JobTypes DEF JobFacts
  <2>3. session' \in [Entries -> {"none", "fresh", "stale", "ended"}]
    BY <1>4, <2>2, <1>j DEF Beat, JoinOpens, LeaveEnds
  <2>4. \A e \in Entries : e # EntryOf(h) => session'[e] = session[e]
    BY <1>4, <2>2, <1>j DEF Beat, JoinOpens, LeaveEnds
  <2>5. \A e \in Entries : IsGuest(e[2]) => session'[e] = "none"
    BY <2>2, <2>4, <1>j
  <2>6. job' \in [Handlers -> Job]
    BY <1>4, <2>2, GotoTypes, ReturnTypes DEF Beat, JoinOpens, LeaveEnds, Statements
  <2> QED BY <1>4, <2>3, <2>5, <2>6 DEF Beat, JoinOpens, LeaveEnds, IsGuest
<1>5. ASSUME NEW h \in Handlers,
             JoinRefused(h) \/ JoinLists(h) \/ LeaveLooks(h) \/ LeaveRemoves(h)
      PROVE  TypeOK'
  <2>1. job[h] # Idle
    BY <1>5, JobTypes DEF JoinRefused, JoinLists, LeaveLooks, LeaveRemoves
  <2>2. job' \in [Handlers -> Job]
    BY <1>5, <2>1, GotoTypes, ReturnTypes DEF JoinRefused, JoinLists, LeaveLooks, LeaveRemoves, Statements
  <2>3. listed' \in SUBSET Entries
    BY <1>5, <2>1, <1>j DEF JoinRefused, JoinLists, LeaveLooks, LeaveRemoves
  <2> QED BY <1>5, <2>2, <2>3 DEF JoinRefused, JoinLists, LeaveLooks, LeaveRemoves, IsGuest
<1>6. ASSUME NEW h \in Handlers, JoinAddresses(h) \/ LeaveUnaddresses(h)
      PROVE  TypeOK'
  <2>1. job[h] # Idle /\ job[h].at \in {"addressing", "unaddressing"}
    BY <1>6, JobTypes DEF JoinAddresses, LeaveUnaddresses
  <2>2. SocketOf(h) \in Sockets /\ owner[SocketOf(h)] \in Users
    BY <2>1, <1>j DEF JobFacts
  <2>3. job' \in [Handlers -> Job]
    BY <1>6, <2>1, GotoTypes DEF JoinAddresses, LeaveUnaddresses, Statements
  <2>4. address' \in [Users -> Sockets \union {Nobody}]
    BY <1>6, <2>2 DEF JoinAddresses, LeaveUnaddresses
  <2> QED BY <1>6, <2>3, <2>4 DEF JoinAddresses, LeaveUnaddresses, IsGuest
<1>7. ASSUME NEW h \in Handlers, JoinTracks(h) \/ LeaveUntracks(h)
      PROVE  TypeOK'
  <2>1. job[h] # Idle
    BY <1>7, JobTypes DEF JoinTracks, LeaveUntracks
  <2>2. job' \in [Handlers -> Job]
    BY <1>7, <2>1, <1>j, LoopTypes, ReturnTypes DEF JoinTracks, LeaveUntracks
  <2>3. tracked' \in [Sockets -> SUBSET Workflows] /\ late' \in SUBSET Entries
    BY <1>7, <2>1, <1>j DEF JoinTracks, LeaveUntracks
  <2> QED BY <1>7, <2>2, <2>3 DEF JoinTracks, LeaveUntracks, IsGuest
<1>8. ASSUME NEW s \in Sockets, NEW w \in Workflows, LeaveNext(s, w) PROVE TypeOK'
  <2>1. <<w, s>> \in Entries
    BY DEF Entries
  <2>2. [at |-> IF IsGuest(s) THEN "removing" ELSE "looking", of |-> <<w, s>>] \in Job
    BY <2>1 DEF Job, Statements
  <2>3. job' \in [Handlers -> Job] /\ muddled' \in SUBSET Entries
    BY <1>8, <2>1, <2>2, Ids DEF LeaveNext
  <2> QED BY <1>8, <2>3 DEF LeaveNext, IsGuest
<1>9. ASSUME NEW s \in Sockets, LoopEnds(s) \/ GuestDropped(s) PROVE TypeOK'
  <2>1. job[s] # Idle /\ s \in Handlers
    BY <1>9, JobTypes, Ids DEF LoopEnds, GuestDropped
  <2>2. job' \in [Handlers -> Job]
    BY <1>9, <2>1, GotoTypes, ReturnTypes DEF LoopEnds, GuestDropped, Close, Statements
  <2> QED BY <1>9, <2>2 DEF LoopEnds, GuestDropped, Close, IsGuest
<1>10. ASSUME NEW e \in Entries, Age(e) PROVE TypeOK'
  BY <1>10 DEF Age, IsGuest
<1>11. ASSUME NEW e \in Entries, SweepRemoves(e) PROVE TypeOK'
  BY <1>11 DEF SweepRemoves, Sweep, IsGuest
<1>12. CASE SweepFinds
  BY <1>12 DEF SweepFinds, Sweep, Stale, IsGuest
<1>13. CASE SweepUnaddresses
  <2>1. sweep.of \in Entries /\ sweep.left \in SUBSET Entries
    BY <1>13 DEF SweepUnaddresses, Sweep
  <2>2. sweep.of[2] \in Sockets /\ owner[sweep.of[2]] \in Users
    BY <2>1, <1>t, Ids DEF OwnerFacts
  <2>3. sweep' \in Sweep
    BY <1>13, <2>1 DEF SweepUnaddresses, Sweep
  <2>4. address' \in [Users -> Sockets \union {Nobody}]
    BY <1>13, <2>2 DEF SweepUnaddresses
  <2> QED BY <1>13, <2>3, <2>4 DEF SweepUnaddresses, IsGuest
<1>14. CASE SweepMarks
  BY <1>14 DEF SweepMarks, Sweep, Resting, Stale, IsGuest
<1>15. ASSUME NEW h \in Handlers, Rejects(h) PROVE TypeOK'
  <2>1. job[h] # Idle
    BY <1>15, JobTypes DEF Rejects
  <2> QED BY <1>15, <2>1, <1>j, <1>f, ReturnTypes DEF Rejects, IsGuest
<1>16. CASE SweepRejects
  <2>1. sweep.at = "unaddressing" => sweep.of \in Entries
    BY DEF Sweep
  <2> QED BY <1>16, <2>1, <1>f DEF SweepRejects, Sweep, Resting, IsGuest
<1>17. CASE Crash
  <2>1. sweep.at = "unaddressing" => sweep.of \in Entries
    BY DEF Sweep
  <2>2. \A h \in Handlers : job[h].at \in Joining \union {"unaddressing"} => EntryOf(h) \in Entries
    BY <1>j, JobTypes DEF Joining
  <2>3. job' \in [Handlers -> Job] /\ sweep' \in Sweep
    BY <1>17 DEF Crash, Job, Sweep, Resting
  <2>4. muddled' \in SUBSET Entries /\ cut' \in SUBSET Entries
    BY <1>17, <2>1, <2>2 DEF Crash
  <2> QED BY <1>17, <2>3, <2>4, <1>f DEF Crash, IsGuest
<1>18. CASE UNCHANGED vars
  BY <1>18 DEF vars, IsGuest
<1> QED
  BY <1>1, <1>2, <1>3, <1>4, <1>5, <1>6, <1>7, <1>8, <1>9, <1>10, <1>11, <1>12, <1>13, <1>14,
     <1>15, <1>16, <1>17, <1>18 DEF Next, Requests, Answers, Closes, Sweeps

-----------------------------------------------------------------------------
\* A connection that was opened stays opened, and keeps its owner.
LEMMA ConnStep ==
  ASSUME TypeOK, OwnerFacts, [Next]_vars, NEW s \in Sockets
  PROVE  conn[s] # "away" => conn'[s] # "away" /\ owner'[s] = owner[s]
<1> SUFFICES ASSUME conn[s] # "away" PROVE conn'[s] # "away" /\ owner'[s] = owner[s]
  OBVIOUS
<1> USE DEF TypeOK, history
<1>1. ASSUME NEW r \in Sockets, Connect(r) \/ Disconnect(r)
      PROVE  conn'[s] # "away" /\ owner'[s] = owner[s]
  BY <1>1 DEF Connect, Disconnect
<1>2. ASSUME NEW r \in Sockets, LoopEnds(r) \/ GuestDropped(r)
      PROVE  conn'[s] # "away" /\ owner'[s] = owner[s]
  BY <1>2 DEF LoopEnds, GuestDropped, Close
<1>3. CASE Crash
  BY <1>3 DEF Crash
<1>4. CASE UNCHANGED <<conn, owner>>
  BY <1>4
<1>5. ASSUME NEW h \in Handlers, Answers(h) \/ Rejects(h) PROVE UNCHANGED <<conn, owner>>
  BY <1>5 DEF Answers, Rejects, Beat, JoinRefused, JoinLists, JoinAddresses, JoinOpens, JoinTracks,
              LeaveLooks, LeaveRemoves, LeaveUnaddresses, LeaveEnds, LeaveUntracks
<1>6. ASSUME NEW m \in Messages, NEW r \in Sockets, NEW w \in Workflows,
             Join(m, r, w) \/ Leave(m, r, w) \/ Heartbeat(m, r, w)
      PROVE  UNCHANGED <<conn, owner>>
  BY <1>6 DEF Join, Leave, Heartbeat, Receive
<1>7. CASE Sweeps \/ SweepRejects \/ (\E e \in Entries : Age(e)) \/ UNCHANGED vars
  BY <1>4, <1>7 DEF Sweeps, SweepFinds, SweepRemoves, SweepUnaddresses, SweepMarks, SweepRejects, Age, vars
<1>8. ASSUME NEW r \in Sockets, NEW w \in Workflows, LeaveNext(r, w) PROVE UNCHANGED <<conn, owner>>
  BY <1>8 DEF LeaveNext
<1> QED BY <1>1, <1>2, <1>3, <1>4, <1>5, <1>6, <1>7, <1>8 DEF Next, Requests, Closes

LEMMA JobFactsNext ==
  ASSUME TypeOK, JobFacts, OwnerFacts, [Next]_vars
  PROVE  JobFacts'
<1> USE DEF TypeOK, history
<1> DEFINE Fact(k) ==
      /\ k \in Messages => job[k].at \notin {"looping", "dropping"}
      /\ k \in Sockets /\ job[k] # Idle =>
           SocketOf(k) = k /\ conn[k] = "gone" /\ job[k].at \notin Joining \union {"beating"}
      /\ job[k] # Idle => conn[SocketOf(k)] # "away"
      /\ job[k].at \in {"addressing", "opening", "looking", "unaddressing", "ending", "beating"} =>
           ~IsGuest(SocketOf(k))
<1>0. \A k \in Handlers : Fact(k)
  BY DEF JobFacts
<1>i. ASSUME NEW k \in Handlers, job'[k] = Idle PROVE Fact(k)'
  BY <1>i DEF Idle
<1>c. ASSUME NEW s \in Sockets, conn[s] # "away"
      PROVE  conn'[s] # "away" /\ owner'[s] = owner[s] /\ IsGuest(s)' = IsGuest(s)
  BY <1>c, ConnStep DEF IsGuest
\* A handler that stays where it is keeps its fact while its socket stays gone.
<1>k. ASSUME NEW k \in Handlers, job'[k] = job[k],
             k \in Sockets /\ conn[k] = "gone" /\ job[k] # Idle => conn'[k] = "gone"
      PROVE  Fact(k)'
  <2>1. CASE job[k] = Idle
    BY <1>i, <1>k, <2>1
  <2>2. CASE job[k] # Idle
    BY <1>0, <1>c, <1>k, <2>2, JobTypes DEF SocketOf
  <2> QED BY <2>1, <2>2
<1>1. ASSUME NEW h \in Handlers, Answers(h) \/ Rejects(h) PROVE JobFacts'
  <2>1. UNCHANGED <<conn, owner>> /\ job[h] # Idle
    BY <1>1, JobTypes
       DEF Answers, Rejects, Beat, JoinRefused, JoinLists, JoinAddresses, JoinOpens, JoinTracks,
           LeaveLooks, LeaveRemoves, LeaveUnaddresses, LeaveEnds, LeaveUntracks
  <2>2. \A k \in Handlers \ {h} : job'[k] = job[k]
    BY <1>1 DEF Answers, Rejects, Beat, JoinRefused, JoinLists, JoinAddresses, JoinOpens, JoinTracks,
           LeaveLooks, LeaveRemoves, LeaveUnaddresses, LeaveEnds, LeaveUntracks, Goto, Return, Loop
  <2>3. CASE LeaveUntracks(h)
    <3>1. h \in Sockets => SocketOf(h) = h /\ conn[h] = "gone"
      BY <1>0, <2>1
    <3>2. CASE h = SocketOf(h)
      <4>1. job'[h] = [at |-> "looping", of |-> <<GuestOf, h>>] /\ h \in Sockets
        BY <2>1, <2>3, <3>2, JobTypes DEF LeaveUntracks, Loop
      <4>2. Fact(h)'
        BY <2>1, <3>1, <4>1, Ids DEF SocketOf, Joining
      <4> QED BY <1>k, <2>1, <2>2, <4>2 DEF JobFacts
    <3>3. CASE h # SocketOf(h)
      BY <1>i, <1>k, <2>1, <2>2, <2>3, <3>3 DEF LeaveUntracks, Return, JobFacts
    <3> QED BY <3>2, <3>3
  <2>4. CASE Beat(h) \/ JoinRefused(h) \/ JoinTracks(h) \/ Rejects(h)
    BY <1>i, <1>k, <2>1, <2>2, <2>4 DEF Beat, JoinRefused, JoinTracks, Rejects, Return, JobFacts
  <2>5. CASE JoinLists(h) \/ JoinAddresses(h) \/ JoinOpens(h)
    <3>1. job'[h].of = job[h].of /\ job'[h].at \in {"addressing", "opening", "tracking"} /\ h \notin Sockets
      BY <1>0, <2>1, <2>5, GotoStep DEF JoinLists, JoinAddresses, JoinOpens, Joining
    <3>2. job'[h].at \in {"addressing", "opening"} => ~IsGuest(SocketOf(h))
      BY <1>0, <2>1, <2>5, GotoStep DEF JoinLists, JoinAddresses, JoinOpens
    <3>3. Fact(h)'
      BY <1>0, <2>1, <3>1, <3>2 DEF SocketOf, IsGuest
    <3> QED BY <1>k, <2>1, <2>2, <3>3 DEF JobFacts
  <2>6. CASE LeaveLooks(h) \/ LeaveRemoves(h) \/ LeaveUnaddresses(h) \/ LeaveEnds(h)
    <3>1. job'[h].of = job[h].of /\ job'[h].at \in {"removing", "unaddressing", "ending", "untracking"}
      BY <2>1, <2>6, GotoStep DEF LeaveLooks, LeaveRemoves, LeaveUnaddresses, LeaveEnds
    <3>2. job'[h].at \in {"unaddressing", "ending"} => ~IsGuest(SocketOf(h))
      BY <1>0, <2>1, <2>6, GotoStep DEF LeaveLooks, LeaveRemoves, LeaveUnaddresses, LeaveEnds
    <3>3. Fact(h)'
      BY <1>0, <2>1, <3>1, <3>2 DEF SocketOf, IsGuest, Joining
    <3> QED BY <1>k, <2>1, <2>2, <3>3 DEF JobFacts
  <2> QED BY <1>1, <2>3, <2>4, <2>5, <2>6 DEF Answers
<1>2. ASSUME NEW m \in Messages, NEW s \in Sockets, NEW w \in Workflows,
             Join(m, s, w) \/ Leave(m, s, w) \/ Heartbeat(m, s, w)
      PROVE  JobFacts'
  <2>1. PICK stmt \in {"listing", "removing", "looking", "beating"} :
          Receive(m, s, w, stmt) /\ (stmt \in {"looking", "beating"} => ~IsGuest(s))
    BY <1>2 DEF Join, Leave, Heartbeat
  <2>2. m \in Handlers /\ m \notin Sockets
    BY Ids
  <2>3. job'[m] = [at |-> stmt, of |-> <<w, s>>] /\ conn[s] = "connected" /\ UNCHANGED <<conn, owner>>
    BY <2>1, <2>2 DEF Receive
  <2>4. Fact(m)'
    BY <2>1, <2>2, <2>3 DEF SocketOf, IsGuest
  <2>5. \A k \in Handlers \ {m} : job'[k] = job[k]
    BY <2>1 DEF Receive
  <2> QED BY <1>k, <2>3, <2>4, <2>5 DEF JobFacts
<1>3. ASSUME NEW s \in Sockets, Connect(s) PROVE JobFacts'
  <2>1. job' = job /\ conn[s] = "away" /\ \A r \in Sockets \ {s} : conn'[r] = conn[r]
    BY <1>3 DEF Connect
  <2> QED BY <1>k, <2>1 DEF JobFacts
<1>4. ASSUME NEW s \in Sockets, Disconnect(s) PROVE JobFacts'
  <2>1. /\ job'[s] = [at |-> "looping", of |-> <<GuestOf, s>>] /\ conn'[s] = "gone"
        /\ \A k \in Handlers \ {s} : job'[k] = job[k]
        /\ \A r \in Sockets \ {s} : conn'[r] = conn[r]
    BY <1>4, Ids DEF Disconnect, Loop
  <2>2. Fact(s)'
    BY <2>1, Ids DEF SocketOf, Joining
  <2> QED BY <1>k, <2>1, <2>2 DEF JobFacts
<1>5. ASSUME NEW s \in Sockets, NEW w \in Workflows, LeaveNext(s, w) PROVE JobFacts'
  <2>1. /\ job'[s] = [at |-> IF IsGuest(s) THEN "removing" ELSE "looking", of |-> <<w, s>>]
        /\ \A k \in Handlers \ {s} : job'[k] = job[k]
        /\ UNCHANGED <<conn, owner>>
    BY <1>5, Ids DEF LeaveNext
  <2>2. conn[s] = "gone"
    BY <1>0, <1>5, JobTypes, Ids DEF LeaveNext
  <2>3. Fact(s)'
    BY <2>1, <2>2, Ids DEF SocketOf, Joining, IsGuest
  <2> QED BY <1>k, <2>1, <2>3 DEF JobFacts
<1>6. ASSUME NEW s \in Sockets, LoopEnds(s) \/ GuestDropped(s) PROVE JobFacts'
  <2>1. s \in Handlers /\ job[s] # Idle /\ SocketOf(s) = s /\ conn[s] = "gone"
    BY <1>0, <1>6, JobTypes, Ids DEF LoopEnds, GuestDropped
  <2>2. /\ \A k \in Handlers \ {s} : job'[k] = job[k]
        /\ \A r \in Sockets \ {s} : conn'[r] = conn[r]
    BY <1>6 DEF LoopEnds, GuestDropped, Close, Goto, Return
  <2>3. CASE job'[s] = Idle
    BY <1>i, <1>k, <2>2, <2>3 DEF JobFacts
  <2>4. CASE job'[s] # Idle
    <3>1. job'[s].at = "dropping" /\ job'[s].of = job[s].of /\ UNCHANGED <<conn, owner>>
      BY <1>6, <2>1, <2>4, GotoStep DEF LoopEnds, GuestDropped, Close, Return
    <3>2. Fact(s)'
      BY <2>1, <3>1, Ids DEF SocketOf, Joining
    <3> QED BY <1>k, <2>2, <3>1, <3>2 DEF JobFacts
  <2> QED BY <2>3, <2>4
<1>7. CASE Crash
  BY <1>i, <1>7 DEF Crash, JobFacts
<1>8. CASE Sweeps \/ SweepRejects \/ (\E e \in Entries : Age(e)) \/ UNCHANGED vars
  <2>1. job' = job /\ conn' = conn
    BY <1>8 DEF Sweeps, SweepFinds, SweepRemoves, SweepUnaddresses, SweepMarks, SweepRejects, Age, vars
  <2> QED BY <1>k, <2>1 DEF JobFacts
<1> QED BY <1>1, <1>2, <1>3, <1>4, <1>5, <1>6, <1>7, <1>8 DEF Next, Requests, Closes

\* The handler of a job, taken apart once for the lemmas below.
LEMMA HandlerOf ==
  ASSUME TypeOK, JobFacts, OwnerFacts, NEW h \in Handlers, job[h].at # "idle"
  PROVE  /\ job[h] # Idle /\ EntryOf(h) \in Entries /\ SocketOf(h) \in Sockets
         /\ EntryOf(h)[2] = SocketOf(h) /\ EntryOf(h)[1] \in Workflows
         /\ EntryOf(h) = <<EntryOf(h)[1], SocketOf(h)>>
         /\ conn[SocketOf(h)] # "away"
         /\ job[h].at \in {"addressing", "opening", "looking", "unaddressing", "ending", "beating"} =>
              ~IsGuest(SocketOf(h)) /\ owner[SocketOf(h)] \in Users
<1>1. job[h] # Idle /\ EntryOf(h)[2] = SocketOf(h)
  BY JobTypes DEF EntryOf, SocketOf
<1>2. SocketOf(h) \in Sockets /\ conn[SocketOf(h)] # "away"
  BY <1>1, JobTypes DEF JobFacts
<1>3. ~IsGuest(SocketOf(h)) => owner[SocketOf(h)] \in Users
  BY <1>2 DEF TypeOK, OwnerFacts, IsGuest
<1> QED BY <1>1, <1>2, <1>3, JobTypes DEF JobFacts

LEMMA OwnerFactsNext ==
  ASSUME TypeOK, JobFacts, OwnerFacts, [Next]_vars
  PROVE  OwnerFacts'
<1> USE DEF TypeOK, history
<1>a. \A s \in Sockets : (conn[s] = "away" <=> owner[s] = Nobody)'
  <2>1. ASSUME NEW s \in Sockets, Connect(s)
        PROVE  \A r \in Sockets : conn'[r] = "away" <=> owner'[r] = Nobody
    BY <2>1, NobodyAssumption DEF Connect, OwnerFacts
  <2>2. CASE \A s \in Sockets : ~Connect(s)
    <3>1. owner' = owner /\ \A r \in Sockets : conn[r] = "away" => conn'[r] = "away"
      <4>1. ASSUME NEW h \in Handlers, Answers(h) \/ Rejects(h) PROVE UNCHANGED <<conn, owner>>
        BY <4>1 DEF Answers, Rejects, Beat, JoinRefused, JoinLists, JoinAddresses, JoinOpens, JoinTracks,
                    LeaveLooks, LeaveRemoves, LeaveUnaddresses, LeaveEnds, LeaveUntracks
      <4>2. ASSUME NEW m \in Messages, NEW r \in Sockets, NEW w \in Workflows,
                   Join(m, r, w) \/ Leave(m, r, w) \/ Heartbeat(m, r, w)
            PROVE  UNCHANGED <<conn, owner>>
        BY <4>2 DEF Join, Leave, Heartbeat, Receive
      <4>3. CASE Sweeps \/ SweepRejects \/ (\E e \in Entries : Age(e)) \/ UNCHANGED vars
        BY <4>3 DEF Sweeps, SweepFinds, SweepRemoves, SweepUnaddresses, SweepMarks, SweepRejects, Age, vars
      <4>4. ASSUME NEW r \in Sockets, Disconnect(r)
            PROVE  owner' = owner /\ \A q \in Sockets : conn[q] = "away" => conn'[q] = "away"
        BY <4>4 DEF Disconnect
      <4>5. ASSUME NEW r \in Sockets, NEW w \in Workflows, LeaveNext(r, w) PROVE UNCHANGED <<conn, owner>>
        BY <4>5 DEF LeaveNext
      <4>6. ASSUME NEW r \in Sockets, LoopEnds(r) \/ GuestDropped(r)
            PROVE  owner' = owner /\ \A q \in Sockets : conn[q] = "away" => conn'[q] = "away"
        <5>1. job[r] # Idle /\ SocketOf(r) = r /\ conn[r] = "gone"
          BY <4>6, JobTypes, Ids DEF LoopEnds, GuestDropped, JobFacts
        <5> QED BY <4>6, <5>1 DEF LoopEnds, GuestDropped, Close
      <4>7. CASE Crash
        BY <4>7 DEF Crash
      <4> QED BY <2>2, <4>1, <4>2, <4>3, <4>4, <4>5, <4>6, <4>7 DEF Next, Requests, Closes
    <3> QED BY <3>1, ConnStep DEF OwnerFacts
  <2> QED BY <2>1, <2>2
\* What the facts say of an entry is about its socket, which keeps its owner.
<1> DEFINE User(e) == ~IsGuest(e[2]) /\ conn[e[2]] # "away"
<1>u. \A e \in Entries : User(e) => User(e)'
  BY ConnStep, Ids DEF IsGuest
<1>b. ASSUME NEW e \in Entries,
             (session[e] # "none" \/ e \in sweep.left \/ e = sweep.of)'
      PROVE  User(e)'
  <2>1. session[e] # "none" \/ e \in sweep.left \/ e = sweep.of => User(e)
    BY DEF OwnerFacts
  <2>2. CASE session[e] # "none" \/ e \in sweep.left \/ e = sweep.of
    BY <1>u, <2>1, <2>2
  <2>3. CASE session[e] = "none" /\ e \notin sweep.left /\ e # sweep.of
    <3>1. ASSUME NEW h \in Handlers, JoinOpens(h) PROVE User(e)'
      <4>1. job[h].at = "opening" /\ sweep' = sweep
        BY <3>1 DEF JoinOpens
      <4>2. session'[e] # "none" => e = EntryOf(h)
        BY <2>3, <3>1, <4>1, HandlerOf DEF JoinOpens
      <4> QED BY <1>b, <1>u, <2>3, <4>1, <4>2, HandlerOf
    <3>2. CASE \A h \in Handlers : ~JoinOpens(h)
      <4>1. session'[e] = "none"
        <5>1. ASSUME NEW h \in Handlers, Answers(h) \/ Rejects(h) PROVE session'[e] = "none"
          BY <2>3, <3>2, <5>1, HandlerOf DEF Answers, Rejects, Beat, JoinRefused, JoinLists, JoinAddresses,
              JoinTracks, LeaveLooks, LeaveRemoves, LeaveUnaddresses, LeaveEnds, LeaveUntracks, Present
        <5>2. CASE Requests \/ Crash \/ SweepRejects \/ UNCHANGED vars
          BY <2>3, <5>2 DEF Requests, Connect, Disconnect, Join, Leave, Heartbeat, Receive, Crash,
                            SweepRejects, vars
        <5>3. CASE Sweeps \/ \E d \in Entries : Age(d)
          BY <2>3, <5>3 DEF Sweeps, SweepFinds, SweepRemoves, SweepUnaddresses, SweepMarks, Age, Stale
        <5>4. ASSUME NEW s \in Sockets, Closes(s) PROVE session'[e] = "none"
          BY <2>3, <5>4 DEF Closes, LeaveNext, LoopEnds, GuestDropped, Close
        <5> QED BY <5>1, <5>2, <5>3, <5>4 DEF Next
      <4>2. e \notin sweep'.left /\ e # sweep'.of
        <5>1. CASE sweep' = sweep
          BY <2>3, <5>1
        <5>2. CASE SweepFinds
          BY <2>3, <5>2 DEF SweepFinds, Sweep, Stale
        <5>3. ASSUME NEW d \in Entries, SweepRemoves(d) PROVE e \notin sweep'.left /\ e # sweep'.of
          BY <2>3, <5>3 DEF SweepRemoves
        <5>4. CASE SweepUnaddresses
          BY <2>3, <5>4, Ids DEF SweepUnaddresses, Sweep
        <5>5. CASE SweepMarks \/ SweepRejects \/ Crash
          BY <2>3, <5>5, Ids DEF SweepMarks, SweepRejects, Crash, Resting
        <5>6. CASE Requests \/ UNCHANGED vars \/ \E d \in Entries : Age(d)
          BY <5>1, <5>6 DEF Requests, Connect, Disconnect, Join, Leave, Heartbeat, Receive, Age, vars
        <5>7. ASSUME NEW h \in Handlers, Answers(h) \/ Rejects(h) PROVE sweep' = sweep
          BY <5>7 DEF Answers, Rejects, Beat, JoinRefused, JoinLists, JoinAddresses, JoinOpens, JoinTracks,
                      LeaveLooks, LeaveRemoves, LeaveUnaddresses, LeaveEnds, LeaveUntracks
        <5>8. ASSUME NEW s \in Sockets, Closes(s) PROVE sweep' = sweep
          BY <5>8 DEF Closes, LeaveNext, LoopEnds, GuestDropped, Close
        <5> QED BY <5>1, <5>2, <5>3, <5>4, <5>5, <5>6, <5>7, <5>8 DEF Next, Sweeps
      <4> QED BY <1>b, <4>1, <4>2
    <3> QED BY <3>1, <3>2
  <2> QED BY <2>2, <2>3
<1>c. ASSUME NEW e \in Entries, e \in listed' PROVE conn'[e[2]] # "away"
  <2>1. CASE e \in listed
    BY <2>1, ConnStep, Ids DEF OwnerFacts
  <2>2. CASE e \notin listed
    <3>1. PICK h \in Handlers : JoinLists(h)
      <4>1. ASSUME NEW h \in Handlers, Answers(h) \/ Rejects(h), ~JoinLists(h) PROVE listed' \subseteq listed
        BY <4>1 DEF Answers, Rejects, Beat, JoinRefused, JoinAddresses, JoinOpens, JoinTracks,
                    LeaveLooks, LeaveRemoves, LeaveUnaddresses, LeaveEnds, LeaveUntracks
      <4>2. CASE Requests \/ Crash \/ SweepRejects \/ UNCHANGED vars
        BY <1>c, <2>2, <4>2 DEF Requests, Connect, Disconnect, Join, Leave, Heartbeat, Receive, Crash,
                          SweepRejects, vars
      <4>3. CASE Sweeps \/ \E d \in Entries : Age(d)
        BY <1>c, <2>2, <4>3 DEF Sweeps, SweepFinds, SweepRemoves, SweepUnaddresses, SweepMarks, Age
      <4>4. ASSUME NEW s \in Sockets, Closes(s) PROVE listed' = listed
        BY <4>4 DEF Closes, LeaveNext, LoopEnds, GuestDropped, Close
      <4> QED BY <1>c, <2>2, <4>1, <4>2, <4>3, <4>4 DEF Next
    <3>2. e = EntryOf(h) /\ job[h].at = "listing"
      BY <1>c, <2>2, <3>1 DEF JoinLists
    <3> QED BY <3>2, HandlerOf, ConnStep
  <2> QED BY <2>1, <2>2
<1>d. ASSUME NEW u \in Users, address'[u] # Nobody PROVE owner'[address'[u]] = u
  <2>1. CASE address'[u] = address[u]
    <3>1. address[u] \in Sockets /\ owner[address[u]] = u
      BY <1>d, <2>1 DEF OwnerFacts
    <3>2. conn[address[u]] # "away"
      BY <3>1, NobodyAssumption DEF OwnerFacts
    <3> QED BY <2>1, <3>1, <3>2, ConnStep
  <2>2. CASE address'[u] # address[u]
    <3>1. PICK h \in Handlers : JoinAddresses(h)
      <4>1. ASSUME NEW h \in Handlers, Answers(h) \/ Rejects(h), ~JoinAddresses(h) PROVE FALSE
        <5>1. CASE LeaveUnaddresses(h)
          BY <1>d, <2>2, <5>1, HandlerOf DEF LeaveUnaddresses
        <5> QED BY <2>2, <4>1, <5>1 DEF Answers, Rejects, Beat, JoinRefused, JoinLists, JoinOpens, JoinTracks,
                    LeaveLooks, LeaveRemoves, LeaveEnds, LeaveUntracks
      <4>2. CASE Requests \/ Crash \/ SweepRejects \/ UNCHANGED vars
        BY <2>2, <4>2 DEF Requests, Connect, Disconnect, Join, Leave, Heartbeat, Receive, Crash,
                          SweepRejects, vars
      <4>3. CASE Sweeps \/ \E d \in Entries : Age(d)
        BY <1>d, <2>2, <4>3 DEF Sweeps, SweepFinds, SweepRemoves, SweepUnaddresses, SweepMarks, Age
      <4>4. ASSUME NEW s \in Sockets, Closes(s) PROVE address' = address
        BY <4>4 DEF Closes, LeaveNext, LoopEnds, GuestDropped, Close
      <4> QED BY <2>2, <4>1, <4>2, <4>3, <4>4 DEF Next
    <3>2. job[h].at = "addressing" /\ address' = [address EXCEPT ![owner[SocketOf(h)]] = SocketOf(h)]
      BY <3>1 DEF JoinAddresses
    <3>3. owner[SocketOf(h)] = u /\ address'[u] = SocketOf(h)
      BY <2>2, <3>2
    <3> QED BY <3>2, <3>3, HandlerOf, ConnStep
  <2> QED BY <2>1, <2>2
<1> QED BY <1>a, <1>b, <1>c, <1>d DEF OwnerFacts

-----------------------------------------------------------------------------
(* Who changes what.                                                       *)

\* A handler is moved by its own steps, by a message or a disconnect, or by a crash.
LEMMA JobStep ==
  ASSUME TypeOK, [Next]_vars, NEW k \in Handlers, job'[k] # job[k]
  PROVE  \/ Answers(k) \/ Rejects(k) \/ Crash
         \/ /\ k \in Messages
            /\ \E s \in Sockets, w \in Workflows : Join(k, s, w) \/ Leave(k, s, w) \/ Heartbeat(k, s, w)
         \/ k \in Sockets /\ (Disconnect(k) \/ Closes(k))
<1> USE DEF TypeOK, history
<1>1. ASSUME NEW h \in Handlers, Answers(h) \/ Rejects(h), h # k PROVE FALSE
  <2>1. CASE LeaveUntracks(h)
    <3>1. CASE h = SocketOf(h)
      BY <1>1, <2>1, <3>1 DEF LeaveUntracks, Loop
    <3>2. CASE h # SocketOf(h)
      BY <1>1, <2>1, <3>2 DEF LeaveUntracks, Return
    <3> QED BY <3>1, <3>2
  <2> QED BY <1>1, <2>1 DEF Answers, Rejects, Beat, JoinRefused, JoinLists, JoinAddresses, JoinOpens, JoinTracks,
           LeaveLooks, LeaveRemoves, LeaveUnaddresses, LeaveEnds, Goto, Return
<1>2. ASSUME NEW m \in Messages, NEW s \in Sockets, NEW w \in Workflows,
             Join(m, s, w) \/ Leave(m, s, w) \/ Heartbeat(m, s, w), m # k
      PROVE  FALSE
  BY <1>2 DEF Join, Leave, Heartbeat, Receive
<1>3. ASSUME NEW s \in Sockets, Disconnect(s) \/ Closes(s), s # k PROVE FALSE
  BY <1>3 DEF Disconnect, Loop, Closes, LeaveNext, LoopEnds, GuestDropped, Close, Goto, Return
<1>4. ~(Sweeps \/ SweepRejects \/ (\E e \in Entries : Age(e)) \/ UNCHANGED vars \/ \E s \in Sockets : Connect(s))
  BY DEF Sweeps, SweepFinds, SweepRemoves, SweepUnaddresses, SweepMarks, SweepRejects, Age, Connect, vars
<1> QED BY <1>1, <1>2, <1>3, <1>4 DEF Next, Requests

LEMMA ExcusesGrow ==
  ASSUME [Next]_vars
  PROVE  muddled \subseteq muddled' /\ cut \subseteq cut' /\ late \subseteq late'
<1> USE DEF history
<1>1. ASSUME NEW h \in Handlers, Answers(h) \/ Rejects(h)
      PROVE  muddled \subseteq muddled' /\ cut \subseteq cut' /\ late \subseteq late'
  BY <1>1 DEF Answers, Rejects, Beat, JoinRefused, JoinLists, JoinAddresses, JoinOpens, JoinTracks,
           LeaveLooks, LeaveRemoves, LeaveUnaddresses, LeaveEnds, LeaveUntracks
<1>2. CASE Requests \/ Crash \/ SweepRejects \/ UNCHANGED vars
  BY <1>2 DEF Requests, Connect, Disconnect, Join, Leave, Heartbeat, Receive, Crash, SweepRejects, vars
<1>3. CASE Sweeps \/ \E d \in Entries : Age(d)
  BY <1>3 DEF Sweeps, SweepFinds, SweepRemoves, SweepUnaddresses, SweepMarks, Age
<1>4. ASSUME NEW s \in Sockets, Closes(s)
      PROVE  muddled \subseteq muddled' /\ cut \subseteq cut' /\ late \subseteq late'
  BY <1>4 DEF Closes, LeaveNext, LoopEnds, GuestDropped, Close
<1> QED BY <1>1, <1>2, <1>3, <1>4 DEF Next

\* Joins list; leaves and the sweep take out.
LEMMA ListedStep ==
  ASSUME TypeOK, [Next]_vars, NEW e \in Entries
  PROVE  /\ e \in listed' /\ e \notin listed => \E h \in Handlers : JoinLists(h) /\ EntryOf(h) = e
         /\ e \in listed /\ e \notin listed' =>
              (\E h \in Handlers : LeaveRemoves(h) /\ EntryOf(h) = e) \/ SweepRemoves(e)
<1> USE DEF history
<1> DEFINE Listed == /\ e \in listed' /\ e \notin listed => \E h \in Handlers : JoinLists(h) /\ EntryOf(h) = e
                     /\ e \in listed /\ e \notin listed' =>
                          (\E h \in Handlers : LeaveRemoves(h) /\ EntryOf(h) = e) \/ SweepRemoves(e)
<1>1. ASSUME NEW h \in Handlers, Answers(h) \/ Rejects(h) PROVE Listed
  <2>1. CASE JoinLists(h)
    <3>1. listed' = listed \union {EntryOf(h)}
      BY <2>1 DEF JoinLists
    <3> QED BY <2>1, <3>1
  <2>2. CASE LeaveRemoves(h)
    <3>1. listed' = listed \ {EntryOf(h)}
      BY <2>2 DEF LeaveRemoves
    <3> QED BY <2>2, <3>1
  <2> QED BY <1>1, <2>1, <2>2 DEF Answers, Rejects, Beat, JoinRefused, JoinAddresses, JoinOpens, JoinTracks,
           LeaveLooks, LeaveUnaddresses, LeaveEnds, LeaveUntracks
<1>2. CASE Requests \/ Crash \/ SweepRejects \/ UNCHANGED vars
  BY <1>2 DEF Requests, Connect, Disconnect, Join, Leave, Heartbeat, Receive, Crash, SweepRejects, vars
<1>3. ASSUME NEW d \in Entries, SweepRemoves(d) PROVE Listed
  <2>1. listed' = listed \ {d}
    BY <1>3 DEF SweepRemoves
  <2> QED BY <1>3, <2>1
<1>4. CASE SweepFinds \/ SweepUnaddresses \/ SweepMarks \/ \E d \in Entries : Age(d)
  BY <1>4 DEF SweepFinds, SweepUnaddresses, SweepMarks, Age
<1>5. ASSUME NEW s \in Sockets, Closes(s) PROVE Listed
  BY <1>5 DEF Closes, LeaveNext, LoopEnds, GuestDropped, Close
<1> QED BY <1>1, <1>2, <1>3, <1>4, <1>5 DEF Next, Sweeps

\* Joins and heartbeats refresh a row; a leave or a sweep ends it.
LEMMA SessionStep ==
  ASSUME TypeOK, JobFacts, OwnerFacts, [Next]_vars, NEW e \in Entries
  PROVE  /\ Present(e) /\ ~Present(e)' =>
              \/ \E h \in Handlers : LeaveEnds(h) /\ EntryOf(h) = e
              \/ SweepMarks /\ session[e] = "stale"
         /\ session'[e] = "stale" /\ session[e] # "stale" => sweep.at = "idle" /\ sweep' = sweep
<1> USE DEF history, TypeOK
<1> DEFINE Row == /\ Present(e) /\ ~Present(e)' =>
                       \/ \E h \in Handlers : LeaveEnds(h) /\ EntryOf(h) = e
                       \/ SweepMarks /\ session[e] = "stale"
                  /\ session'[e] = "stale" /\ session[e] # "stale" => sweep.at = "idle" /\ sweep' = sweep
<1>1. ASSUME NEW h \in Handlers, Answers(h) \/ Rejects(h) PROVE Row
  <2>1. CASE LeaveEnds(h)
    <3>1. session' = session \/ session' = [session EXCEPT ![EntryOf(h)] = "ended"]
      BY <2>1 DEF LeaveEnds
    <3> QED BY <2>1, <3>1 DEF Present
  <2>2. CASE Beat(h) \/ JoinOpens(h)
    <3>1. session' = session \/ session' = [session EXCEPT ![EntryOf(h)] = "fresh"]
      BY <2>2 DEF Beat, JoinOpens
    <3> QED BY <3>1 DEF Present
  <2>3. CASE session' = session
    BY <2>3 DEF Present
  <2> QED BY <1>1, <2>1, <2>2, <2>3 DEF Answers, Rejects, JoinRefused, JoinLists, JoinAddresses, JoinTracks,
           LeaveLooks, LeaveRemoves, LeaveUnaddresses, LeaveUntracks
<1>2. CASE Requests \/ Crash \/ SweepRejects \/ UNCHANGED vars
  BY <1>2 DEF Requests, Connect, Disconnect, Join, Leave, Heartbeat, Receive, Crash, SweepRejects, vars, Present
<1>3. ASSUME NEW d \in Entries, Age(d) PROVE Row
  BY <1>3 DEF Age, Present
<1>4. CASE SweepMarks
  BY <1>4 DEF SweepMarks, Stale, Present
<1>5. CASE SweepFinds \/ SweepUnaddresses \/ \E d \in Entries : SweepRemoves(d)
  BY <1>5 DEF SweepFinds, SweepUnaddresses, SweepRemoves, Present
<1>6. ASSUME NEW s \in Sockets, Closes(s) PROVE Row
  BY <1>6 DEF Closes, LeaveNext, LoopEnds, GuestDropped, Close, Present
<1> QED BY <1>1, <1>2, <1>3, <1>4, <1>5, <1>6 DEF Next, Sweeps

\* A join comes from its message, and goes on with its entry.
LEMMA JoiningStep ==
  ASSUME TypeOK, JobFacts, OwnerFacts, [Next]_vars, NEW k \in Handlers, job'[k].at \in Joining
  PROVE  \/ job[k].at \in Joining /\ EntryOf(k)' = EntryOf(k)
         \/ /\ job'[k].at = "listing"
            /\ \E s \in Sockets, w \in Workflows : Join(k, s, w) /\ EntryOf(k)' = <<w, s>>
<1>1. CASE job'[k] = job[k]
  BY <1>1 DEF EntryOf
<1>2. CASE job'[k] # job[k]
  <2> USE DEF Joining, EntryOf
  <2>1. CASE Answers(k) \/ Rejects(k)
    <3>1. job[k] # Idle
      BY <2>1, JobTypes DEF Answers, Rejects, Beat, JoinRefused, JoinLists, JoinAddresses, JoinOpens,
            JoinTracks, LeaveLooks, LeaveRemoves, LeaveUnaddresses, LeaveEnds, LeaveUntracks
    <3>2. CASE JoinLists(k) \/ JoinAddresses(k) \/ JoinOpens(k)
      BY <3>1, <3>2, GotoStep DEF JoinLists, JoinAddresses, JoinOpens
    <3>3. CASE Beat(k) \/ JoinRefused(k) \/ JoinTracks(k) \/ Rejects(k)
      BY <3>3 DEF Beat, JoinRefused, JoinTracks, Rejects, Return, Idle, TypeOK
    <3>4. CASE LeaveLooks(k) \/ LeaveRemoves(k) \/ LeaveUnaddresses(k) \/ LeaveEnds(k)
      BY <3>1, <3>4, GotoStep DEF LeaveLooks, LeaveRemoves, LeaveUnaddresses, LeaveEnds
    <3>5. CASE LeaveUntracks(k)
      BY <3>5 DEF LeaveUntracks, Return, Loop, Idle, TypeOK
    <3> QED BY <2>1, <3>2, <3>3, <3>4, <3>5 DEF Answers
  <2>2. CASE Crash
    BY <2>2 DEF Crash, Idle
  <2>3. ASSUME NEW s \in Sockets, NEW w \in Workflows, Join(k, s, w) \/ Leave(k, s, w) \/ Heartbeat(k, s, w)
        PROVE  Join(k, s, w) /\ job'[k].at = "listing" /\ EntryOf(k)' = <<w, s>>
    BY <2>3 DEF Join, Leave, Heartbeat, Receive, TypeOK
  <2>4. CASE k \in Sockets /\ (Disconnect(k) \/ Closes(k))
    <3>1. LoopEnds(k) => job[k] # Idle
      BY JobTypes DEF LoopEnds
    <3>2. ASSUME NEW w \in Workflows, LeaveNext(k, w) PROVE FALSE
      BY <3>2 DEF LeaveNext, TypeOK
    <3>3. ~(Disconnect(k) \/ LoopEnds(k) \/ GuestDropped(k))
      BY <3>1, GotoStep DEF Disconnect, LoopEnds, GuestDropped, Close, Loop, Return, Idle, TypeOK
    <3> QED BY <2>4, <3>2, <3>3 DEF Closes
  <2> QED BY <1>2, <2>1, <2>2, <2>3, <2>4, JobStep
<1> QED BY <1>1, <1>2

\* A leave comes from its message or from the loop of a disconnect handler.
LEMMA LeavingStep ==
  ASSUME TypeOK, JobFacts, OwnerFacts, [Next]_vars, NEW k \in Handlers, job'[k].at \in Leaving
  PROVE  \/ job[k].at \in Leaving /\ EntryOf(k)' = EntryOf(k)
         \/ /\ job'[k].at \in {"looking", "removing"}
            /\ \E s \in Sockets, w \in Workflows :
                 /\ EntryOf(k)' = <<w, s>>
                 /\ Leave(k, s, w) \/ (k = s /\ LeaveNext(s, w))
<1>1. CASE job'[k] = job[k]
  BY <1>1 DEF EntryOf
<1>2. CASE job'[k] # job[k]
  <2> USE DEF Leaving, EntryOf
  <2>1. CASE Answers(k) \/ Rejects(k)
    <3>1. job[k] # Idle
      BY <2>1, JobTypes DEF Answers, Rejects, Beat, JoinRefused, JoinLists, JoinAddresses, JoinOpens,
            JoinTracks, LeaveLooks, LeaveRemoves, LeaveUnaddresses, LeaveEnds, LeaveUntracks
    <3>2. CASE JoinLists(k) \/ JoinAddresses(k) \/ JoinOpens(k)
      BY <3>1, <3>2, GotoStep DEF JoinLists, JoinAddresses, JoinOpens
    <3>3. CASE Beat(k) \/ JoinRefused(k) \/ JoinTracks(k) \/ Rejects(k)
      BY <3>3 DEF Beat, JoinRefused, JoinTracks, Rejects, Return, Idle, TypeOK
    <3>4. CASE LeaveLooks(k) \/ LeaveRemoves(k) \/ LeaveUnaddresses(k) \/ LeaveEnds(k)
      BY <3>1, <3>4, GotoStep DEF LeaveLooks, LeaveRemoves, LeaveUnaddresses, LeaveEnds
    <3>5. CASE LeaveUntracks(k)
      BY <3>5 DEF LeaveUntracks, Return, Loop, Idle, TypeOK
    <3> QED BY <2>1, <3>2, <3>3, <3>4, <3>5 DEF Answers
  <2>2. CASE Crash
    BY <2>2 DEF Crash, Idle
  <2>3. ASSUME NEW s \in Sockets, NEW w \in Workflows, Join(k, s, w) \/ Leave(k, s, w) \/ Heartbeat(k, s, w)
        PROVE  Leave(k, s, w) /\ job'[k].at \in {"looking", "removing"} /\ EntryOf(k)' = <<w, s>>
    BY <2>3 DEF Join, Leave, Heartbeat, Receive, TypeOK
  <2>4. CASE k \in Sockets /\ (Disconnect(k) \/ Closes(k))
    <3>1. LoopEnds(k) => job[k] # Idle
      BY JobTypes DEF LoopEnds
    <3>2. ASSUME NEW w \in Workflows, LeaveNext(k, w)
          PROVE  job'[k].at \in {"looking", "removing"} /\ EntryOf(k)' = <<w, k>>
      BY <3>2 DEF LeaveNext, TypeOK
    <3>3. ~(Disconnect(k) \/ LoopEnds(k) \/ GuestDropped(k))
      BY <3>1, GotoStep DEF Disconnect, LoopEnds, GuestDropped, Close, Loop, Return, Idle, TypeOK
    <3> QED BY <2>4, <3>2, <3>3 DEF Closes
  <2> QED BY <1>2, <2>1, <2>2, <2>3, <2>4, JobStep
<1> QED BY <1>1, <1>2

-----------------------------------------------------------------------------
LEMMA CrossNext ==
  ASSUME SafeInv, [Next]_vars
  PROVE  CrossFacts'
<1> SUFFICES ASSUME NEW h \in Handlers, NEW k \in Handlers,
                    job'[h].at \in Joining, job'[k].at \in Leaving, EntryOf(h)' = EntryOf(k)'
             PROVE  EntryOf(h)' \in muddled'
  BY DEF CrossFacts
<1> USE DEF SafeInv
<1>d. Joining \intersect Leaving = {}
  BY DEF Joining, Leaving
<1>1. CASE job[h].at \in Joining /\ EntryOf(h)' = EntryOf(h) /\ job[k].at \in Leaving /\ EntryOf(k)' = EntryOf(k)
  BY <1>1, ExcusesGrow DEF CrossFacts
<1>2. ASSUME NEW s \in Sockets, NEW w \in Workflows, Join(h, s, w), EntryOf(h)' = <<w, s>>
      PROVE  EntryOf(h)' \in muddled'
  <2>1. h # k /\ job'[k] = job[k]
    BY <1>2, <1>d DEF Join, Receive, TypeOK
  <2>2. At(<<w, s>>, Leaving)
    BY <1>2, <2>1 DEF At, EntryOf
  <2> QED BY <1>2, <2>2 DEF Join
<1>3. ASSUME NEW s \in Sockets, NEW w \in Workflows, EntryOf(k)' = <<w, s>>,
             Leave(k, s, w) \/ (k = s /\ LeaveNext(s, w))
      PROVE  EntryOf(h)' \in muddled'
  <2>1. h # k /\ job'[h] = job[h]
    BY <1>3, <1>d DEF Leave, LeaveNext, Receive, TypeOK
  <2>2. At(<<w, s>>, Joining)
    BY <1>3, <2>1 DEF At, EntryOf
  <2> QED BY <1>3, <2>2 DEF Leave, LeaveNext
<1> QED BY <1>1, <1>2, <1>3, JoiningStep, LeavingStep

\* A join that sees its entry taken out or a leave that sees it put back is muddled.
LEMMA CrossedJoin ==
  ASSUME SafeInv, [Next]_vars, NEW e \in Entries, e \in listed, e \notin listed', At(e, Joining)
  PROVE  e \in muddled'
<1>1. ASSUME NEW h \in Handlers, LeaveRemoves(h), EntryOf(h) = e PROVE e \in muddled
  BY <1>1 DEF SafeInv, CrossFacts, At, EntryOf, Leaving, LeaveRemoves
<1>2. CASE SweepRemoves(e)
  BY <1>2 DEF SweepRemoves
<1> QED BY <1>1, <1>2, ListedStep, ExcusesGrow DEF SafeInv

LEMMA CrossedLeave ==
  ASSUME SafeInv, [Next]_vars, NEW e \in Entries, e \notin listed, e \in listed',
         NEW h \in Handlers, job[h].at \in Leaving, EntryOf(h) = e
  PROVE  e \in muddled'
<1>1. PICK k \in Handlers : JoinLists(k) /\ EntryOf(k) = e
  BY ListedStep DEF SafeInv
<1> QED BY <1>1, ExcusesGrow DEF SafeInv, CrossFacts, Joining, JoinLists

LEMMA ListFactsNext ==
  ASSUME SafeInv, [Next]_vars
  PROVE  ListFacts'
<1> USE DEF SafeInv
<1>1. ASSUME NEW h \in Handlers, job'[h].at \in {"addressing", "opening"}
      PROVE  EntryOf(h)' \in listed' \union muddled'
  <2>1. job[h].at \in Joining /\ EntryOf(h)' = EntryOf(h)
    BY <1>1, JoiningStep DEF Joining
  <2>2. EntryOf(h) \in Entries
    BY <2>1, HandlerOf DEF Joining
  <2>3. CASE job[h].at \in {"addressing", "opening"}
    <3>1. At(EntryOf(h), Joining)
      BY <2>1 DEF At, EntryOf
    <3> QED BY <2>1, <2>2, <2>3, <3>1, CrossedJoin, ExcusesGrow DEF ListFacts
  <2>4. CASE job[h].at \notin {"addressing", "opening"}
    <3>1. JoinLists(h)
      <4>1. job'[h] # job[h] /\ job[h] # Idle
        BY <1>1, <2>1, <2>4, HandlerOf DEF Joining
      <4>2. CASE Answers(h) \/ Rejects(h)
        BY <1>1, <2>1, <2>4, <4>2 DEF Answers, Rejects, Beat, JoinRefused, JoinAddresses, JoinOpens,
            JoinTracks, LeaveLooks, LeaveRemoves, LeaveUnaddresses, LeaveEnds, LeaveUntracks, Joining,
            Return, Idle, TypeOK
      <4>3. CASE Crash
        BY <1>1, <4>3 DEF Crash, Idle
      <4>4. ASSUME NEW s \in Sockets, NEW w \in Workflows, Join(h, s, w) \/ Leave(h, s, w) \/ Heartbeat(h, s, w)
            PROVE  FALSE
        BY <4>1, <4>4 DEF Join, Leave, Heartbeat, Receive
      <4>5. ~(h \in Sockets)
        BY <2>1, <4>1 DEF JobFacts
      <4> QED BY <4>1, <4>2, <4>3, <4>4, <4>5, JobStep
    <3> QED BY <2>1, <3>1 DEF JoinLists
  <2> QED BY <2>3, <2>4
<1>2. ASSUME NEW h \in Handlers, job'[h].at \in {"unaddressing", "ending", "untracking"}
      PROVE  EntryOf(h)' \notin listed' \/ EntryOf(h)' \in muddled'
  <2>1. job[h].at \in Leaving /\ EntryOf(h)' = EntryOf(h)
    BY <1>2, LeavingStep DEF Leaving
  <2>2. EntryOf(h) \in Entries
    BY <2>1, HandlerOf DEF Leaving
  <2>3. CASE EntryOf(h) \notin listed
    BY <2>1, <2>2, <2>3, CrossedLeave
  <2>4. CASE job[h].at \in {"unaddressing", "ending", "untracking"} /\ EntryOf(h) \in listed
    BY <2>1, <2>4, ExcusesGrow DEF ListFacts
  <2>5. CASE job[h].at \notin {"unaddressing", "ending", "untracking"} /\ EntryOf(h) \in listed
    <3>1. LeaveRemoves(h)
      <4>1. job'[h] # job[h] /\ job[h] # Idle /\ job[h].at \in {"looking", "removing"}
        BY <1>2, <2>1, <2>5, HandlerOf DEF Leaving
      <4>2. CASE Answers(h) \/ Rejects(h)
        <5>1. CASE LeaveLooks(h)
          BY <1>2, <2>5, <4>1, <5>1, GotoStep DEF LeaveLooks
        <5> QED BY <1>2, <4>1, <4>2, <5>1 DEF Answers, Rejects, Beat, JoinRefused, JoinLists, JoinAddresses,
            JoinOpens, JoinTracks, LeaveUnaddresses, LeaveEnds, LeaveUntracks, Return, Idle, TypeOK
      <4>3. CASE Crash
        BY <1>2, <4>3 DEF Crash, Idle
      <4>4. ASSUME NEW s \in Sockets, NEW w \in Workflows, Join(h, s, w) \/ Leave(h, s, w) \/ Heartbeat(h, s, w)
            PROVE  FALSE
        BY <4>1, <4>4 DEF Join, Leave, Heartbeat, Receive
      <4>5. CASE h \in Sockets /\ (Disconnect(h) \/ Closes(h))
        BY <4>1, <4>5, JobTypes DEF JobFacts, Disconnect, Closes, LeaveNext, LoopEnds, GuestDropped
      <4> QED BY <4>1, <4>2, <4>3, <4>4, <4>5, JobStep
    <3> QED BY <2>1, <3>1 DEF LeaveRemoves
  <2> QED BY <2>3, <2>4, <2>5
<1> QED BY <1>1, <1>2 DEF ListFacts

-----------------------------------------------------------------------------
\* A join that is to open its row does, or is muddled.
LEMMA OpensStays ==
  ASSUME SafeInv, [Next]_vars, NEW e \in Entries, Opens(e), ~Opens(e)'
  PROVE  session'[e] = "fresh" \/ e \in muddled'
<1> USE DEF SafeInv
<1>1. PICK h \in Handlers : job[h].at \in {"addressing", "opening"} /\ EntryOf(h) = e
  BY DEF Opens
<1>2. job'[h] # job[h] /\ job[h] # Idle
  BY <1>1, HandlerOf DEF Opens, EntryOf
<1>3. CASE JoinOpens(h)
  BY <1>1, <1>3 DEF JoinOpens, TypeOK
<1>4. CASE JoinAddresses(h)
  BY <1>1, <1>2, <1>4, GotoStep DEF JoinAddresses, Opens, EntryOf
<1>5. CASE Rejects(h)
  BY <1>1, <1>5 DEF Rejects, Unfinished
<1>6. CASE Crash
  BY <1>1, <1>6 DEF Crash, Joining
<1>7. ASSUME NEW s \in Sockets, NEW w \in Workflows, Join(h, s, w) \/ Leave(h, s, w) \/ Heartbeat(h, s, w)
      PROVE  FALSE
  BY <1>2, <1>7 DEF Join, Leave, Heartbeat, Receive
<1>8. h \notin Sockets
  BY <1>1, <1>2 DEF JobFacts, Joining
<1>9. Answers(h) => JoinOpens(h) \/ JoinAddresses(h)
  BY <1>1 DEF Answers, Beat, JoinRefused, JoinLists, JoinTracks, LeaveLooks, LeaveRemoves,
              LeaveUnaddresses, LeaveEnds, LeaveUntracks
<1> QED BY <1>2, <1>3, <1>4, <1>5, <1>6, <1>7, <1>8, <1>9, JobStep

\* A user's entry put into the hash is about to have its row opened.
LEMMA ListedOpens ==
  ASSUME SafeInv, [Next]_vars, NEW e \in Entries, e \notin listed, e \in listed', ~IsGuest(e[2])
  PROVE  Opens(e)'
<1> USE DEF SafeInv
<1>1. PICK h \in Handlers : JoinLists(h) /\ EntryOf(h) = e
  BY ListedStep
<1>2. job[h] # Idle /\ SocketOf(h) = e[2]
  BY <1>1, JobTypes DEF JoinLists, EntryOf, SocketOf
<1>3. job'[h].at = "addressing" /\ job'[h].of = job[h].of
  BY <1>1, <1>2, GotoStep DEF JoinLists
<1> QED BY <1>1, <1>3 DEF Opens, EntryOf

LEMMA SweptFactsNext ==
  ASSUME SafeInv, SweptFacts, [Next]_vars
  PROVE  SweptFacts'
<1> SUFFICES ASSUME NEW e \in Entries, sweep'.at # "idle", session'[e] = "stale", e \notin sweep'.left
             PROVE  e \notin listed' \/ Opens(e)' \/ e \in muddled'
  BY DEF SweptFacts, Opens, EntryOf
<1> USE DEF SafeInv
<1>1. session[e] = "stale"
  BY SessionStep
<1>2. ~IsGuest(e[2])
  BY <1>1 DEF OwnerFacts
<1>3. CASE SweepFinds
  BY <1>1, <1>3 DEF SweepFinds, Stale, TypeOK, Sweep
<1>4. CASE SweepRemoves(e)
  BY <1>4 DEF SweepRemoves
<1>5. CASE sweep.at # "idle" /\ e \notin sweep.left
  <2>1. e \notin listed \/ Opens(e) \/ e \in muddled
    BY <1>1, <1>5 DEF SweptFacts
  <2>2. Opens(e) => Opens(e)' \/ e \in muddled'
    BY OpensStays
  <2>3. e \notin listed /\ e \in listed' => Opens(e)'
    BY <1>2, ListedOpens
  <2> QED BY <2>1, <2>2, <2>3, ExcusesGrow
<1>6. SweepFinds \/ SweepRemoves(e) \/ (sweep.at # "idle" /\ e \notin sweep.left)
  <2> USE DEF history
  <2>1. ASSUME NEW h \in Handlers, Answers(h) \/ Rejects(h) PROVE sweep' = sweep
    BY <2>1 DEF Answers, Rejects, Beat, JoinRefused, JoinLists, JoinAddresses, JoinOpens, JoinTracks,
             LeaveLooks, LeaveRemoves, LeaveUnaddresses, LeaveEnds, LeaveUntracks
  <2>2. CASE Requests \/ UNCHANGED vars \/ \E d \in Entries : Age(d)
    BY <2>2 DEF Requests, Connect, Disconnect, Join, Leave, Heartbeat, Receive, Age, vars
  <2>3. CASE Crash \/ SweepRejects \/ SweepMarks
    BY <2>3 DEF Crash, SweepRejects, SweepMarks, Resting
  <2>4. ASSUME NEW d \in Entries, SweepRemoves(d), d # e PROVE sweep.at # "idle" /\ e \notin sweep.left
    BY <2>4 DEF SweepRemoves
  <2>5. CASE SweepUnaddresses
    BY <2>5 DEF SweepUnaddresses, TypeOK, Sweep
  <2>6. ASSUME NEW s \in Sockets, Closes(s) PROVE sweep' = sweep
    BY <2>6 DEF Closes, LeaveNext, LoopEnds, GuestDropped, Close
  <2> QED BY <2>1, <2>2, <2>3, <2>4, <2>5, <2>6 DEF Next, Sweeps
<1> QED BY <1>3, <1>4, <1>5, <1>6

LEMMA SweepableNext ==
  ASSUME SafeInv, SweptFacts, ListedIsSweepable, [Next]_vars
  PROVE  ListedIsSweepable'
<1> SUFFICES ASSUME NEW e \in Entries, e \in listed', ~IsGuest(e[2])'
             PROVE  Present(e)' \/ Opens(e)' \/ e \in muddled'
  <2>1. listed' \subseteq Entries
    BY TypeNext DEF SafeInv, TypeOK
  <2> QED BY <2>1 DEF ListedIsSweepable, Opens, At, EntryOf
<1> USE DEF SafeInv
<1>1. CASE e \notin listed
  <2>1. ~IsGuest(e[2])
    <3>1. PICK h \in Handlers : JoinLists(h) /\ EntryOf(h) = e
      BY <1>1, ListedStep
    <3>2. owner' = owner
      BY <3>1 DEF JoinLists, history
    <3> QED BY <3>2 DEF IsGuest
  <2> QED BY <1>1, <2>1, ListedOpens
<1>2. CASE e \in listed
  <2>1. ~IsGuest(e[2])
    BY <1>2, ConnStep, Ids DEF OwnerFacts, IsGuest
  <2>2. Present(e) \/ Opens(e) \/ e \in muddled
    BY <1>2, <2>1 DEF ListedIsSweepable, At, Opens, EntryOf
  <2>3. CASE Opens(e)
    BY <2>3, OpensStays DEF Present
  <2>4. CASE Present(e) /\ ~Present(e)'
    <3>1. ASSUME NEW h \in Handlers, LeaveEnds(h), EntryOf(h) = e PROVE e \in muddled
      BY <1>2, <3>1 DEF LeaveEnds, ListFacts
    <3>2. CASE SweepMarks /\ session[e] = "stale"
      BY <1>2, <2>3, <3>2 DEF SweepMarks, SweptFacts, history
    <3> QED BY <2>4, <3>1, <3>2, SessionStep, ExcusesGrow
  <2> QED BY <2>2, <2>3, <2>4, ExcusesGrow
<1> QED BY <1>1, <1>2

-----------------------------------------------------------------------------
LEMMA AddressNext ==
  ASSUME SafeInv, AddressIsListed, [Next]_vars
  PROVE  AddressIsListed'
<1> DEFINE Somewhere(s) ==
      \/ \E e \in listed : e[2] = s
      \/ \E w \in Workflows : At(<<w, s>>, {"opening", "unaddressing"}) \/ <<w, s>> \in muddled \union cut
      \/ sweep.at = "unaddressing" /\ sweep.of[2] = s
<1> SUFFICES ASSUME NEW u \in Users, NEW s \in Sockets, address'[u] = s
             PROVE  Somewhere(s)'
  <2>1. address' \in [Users -> Sockets \union {Nobody}]
    BY TypeNext DEF SafeInv, TypeOK
  <2> QED BY <2>1 DEF AddressIsListed
<1> USE DEF SafeInv, history
<1>g. ASSUME NEW w \in Workflows, <<w, s>> \in muddled' \union cut' PROVE Somewhere(s)'
  BY <1>g
<1>a. ASSUME NEW e \in Entries, e[2] = s, e \in listed' \union muddled' \union cut' PROVE Somewhere(s)'
  BY <1>a, Ids
<1>h. ASSUME NEW k \in Handlers, job'[k].at \in {"opening", "unaddressing"}, job'[k].of[2] = s,
             job'[k].of \in Entries
      PROVE  Somewhere(s)'
  <2>1. PICK w \in Workflows : job'[k].of = <<w, s>>
    BY <1>h, Ids
  <2> QED BY <1>h, <2>1 DEF At
<1>1. CASE address[u] # s
  <2>1. PICK k \in Handlers : JoinAddresses(k)
    <3>1. ASSUME NEW h \in Handlers, Answers(h) \/ Rejects(h), ~JoinAddresses(h) PROVE FALSE
      <4>1. CASE LeaveUnaddresses(h)
        BY <1>1, <4>1, NobodyAssumption DEF LeaveUnaddresses, TypeOK
      <4> QED BY <1>1, <3>1, <4>1 DEF Answers, Rejects, Beat, JoinRefused, JoinLists, JoinOpens, JoinTracks,
                  LeaveLooks, LeaveRemoves, LeaveEnds, LeaveUntracks
    <3>2. CASE Requests \/ Crash \/ SweepRejects \/ UNCHANGED vars
      BY <1>1, <3>2 DEF Requests, Connect, Disconnect, Join, Leave, Heartbeat, Receive, Crash,
                        SweepRejects, vars
    <3>3. CASE Sweeps \/ \E d \in Entries : Age(d)
      BY <1>1, <3>3, NobodyAssumption
         DEF Sweeps, SweepFinds, SweepRemoves, SweepUnaddresses, SweepMarks, Age, TypeOK
    <3>4. ASSUME NEW r \in Sockets, Closes(r) PROVE address' = address
      BY <3>4 DEF Closes, LeaveNext, LoopEnds, GuestDropped, Close
    <3> QED BY <1>1, <3>1, <3>2, <3>3, <3>4 DEF Next
  <2>2. job[k].at = "addressing" /\ SocketOf(k) = s
    BY <1>1, <2>1 DEF JoinAddresses, TypeOK
  <2>3. job'[k].at = "opening" /\ job'[k].of = job[k].of
    BY <2>1, <2>2, HandlerOf, GotoStep DEF JoinAddresses
  <2> QED BY <1>h, <2>2, <2>3, HandlerOf DEF EntryOf, SocketOf
<1>2. CASE address[u] = s
  <2>0. owner[s] = u /\ ~IsGuest(s) /\ Somewhere(s) /\ s # Nobody
    BY <1>2, GuestAssumption, NobodyAssumption DEF OwnerFacts, AddressIsListed, IsGuest
  <2>1. ASSUME NEW e \in Entries, e \in listed, e[2] = s PROVE Somewhere(s)'
    <3>1. CASE e \in listed'
      BY <1>a, <2>1, <3>1
    <3>2. ASSUME NEW h \in Handlers, LeaveRemoves(h), EntryOf(h) = e PROVE Somewhere(s)'
      <4>1. job[h].at = "removing" /\ SocketOf(h) = s
        BY <2>1, <3>2 DEF LeaveRemoves, EntryOf, SocketOf
      <4>2. job'[h].at = "unaddressing" /\ job'[h].of = e
        BY <2>0, <3>2, <4>1, HandlerOf, GotoStep DEF LeaveRemoves, EntryOf
      <4> QED BY <1>h, <2>1, <4>2
    <3>3. CASE SweepRemoves(e)
      BY <2>1, <3>3 DEF SweepRemoves
    <3> QED BY <2>1, <3>1, <3>2, <3>3, ListedStep
  <2>2. ASSUME NEW w \in Workflows, At(<<w, s>>, {"opening", "unaddressing"}) PROVE Somewhere(s)'
    <3>1. PICK h \in Handlers : job[h].at \in {"opening", "unaddressing"} /\ EntryOf(h) = <<w, s>>
      BY <2>2 DEF At, EntryOf
    <3>2. <<w, s>> \in Entries /\ SocketOf(h) = s /\ job[h] # Idle
      BY <3>1, HandlerOf DEF EntryOf, SocketOf
    <3>3. CASE job'[h] = job[h]
      BY <1>h, <3>1, <3>2, <3>3 DEF EntryOf
    <3>4. CASE JoinOpens(h)
      <4>1. <<w, s>> \in listed \union muddled
        BY <3>1, <3>4 DEF ListFacts, JoinOpens
      <4>2. listed' = listed /\ muddled' = muddled
        BY <3>4 DEF JoinOpens
      <4> QED BY <1>a, <3>2, <4>1, <4>2
    <3>5. CASE LeaveUnaddresses(h)
      BY <1>2, <2>0, <3>2, <3>5 DEF LeaveUnaddresses, TypeOK
    <3>6. CASE Rejects(h)
      BY <1>g, <3>1, <3>6 DEF Rejects, Unfinished
    <3>7. CASE Crash
      BY <1>g, <3>1, <3>7 DEF Crash, Joining
    <3>8. ASSUME NEW r \in Sockets, NEW v \in Workflows, Join(h, r, v) \/ Leave(h, r, v) \/ Heartbeat(h, r, v)
          PROVE  FALSE
      BY <3>2, <3>8 DEF Join, Leave, Heartbeat, Receive
    <3>9. CASE h \in Sockets /\ (Disconnect(h) \/ Closes(h))
      BY <3>1, <3>2, <3>9 DEF JobFacts, Disconnect, Closes, LeaveNext, LoopEnds, GuestDropped
    <3>10. Answers(h) => JoinOpens(h) \/ LeaveUnaddresses(h)
      BY <3>1 DEF Answers, Beat, JoinRefused, JoinLists, JoinAddresses, JoinTracks, LeaveLooks, LeaveRemoves,
                  LeaveEnds, LeaveUntracks
    <3> QED BY <3>3, <3>4, <3>5, <3>6, <3>7, <3>8, <3>9, <3>10, JobStep
  <2>3. CASE sweep.at = "unaddressing" /\ sweep.of[2] = s
    <3>1. sweep.of \in Entries
      BY <2>3 DEF TypeOK, Sweep
    <3>2. CASE sweep' = sweep
      BY <2>3, <3>2
    <3>3. CASE SweepUnaddresses
      BY <1>2, <2>0, <2>3, <3>3 DEF SweepUnaddresses, TypeOK
    <3>4. CASE SweepRejects \/ Crash
      BY <1>a, <2>3, <3>1, <3>4 DEF SweepRejects, Crash
    <3>5. CASE SweepFinds \/ SweepMarks \/ \E d \in Entries : SweepRemoves(d)
      BY <2>3, <3>5 DEF SweepFinds, SweepMarks, SweepRemoves
    <3>6. ASSUME NEW h \in Handlers, Answers(h) \/ Rejects(h) PROVE sweep' = sweep
      BY <3>6 DEF Answers, Rejects, Beat, JoinRefused, JoinLists, JoinAddresses, JoinOpens, JoinTracks,
               LeaveLooks, LeaveRemoves, LeaveUnaddresses, LeaveEnds, LeaveUntracks
    <3>7. CASE Requests \/ UNCHANGED vars \/ \E d \in Entries : Age(d)
      BY <3>2, <3>7 DEF Requests, Connect, Disconnect, Join, Leave, Heartbeat, Receive, Age, vars
    <3>8. ASSUME NEW r \in Sockets, Closes(r) PROVE sweep' = sweep
      BY <3>8 DEF Closes, LeaveNext, LoopEnds, GuestDropped, Close
    <3> QED BY <3>2, <3>3, <3>4, <3>5, <3>6, <3>7, <3>8 DEF Next, Sweeps
  <2>4. ASSUME NEW w \in Workflows, <<w, s>> \in muddled \union cut PROVE Somewhere(s)'
    BY <1>g, <2>4, ExcusesGrow
  <2>5. \A e \in listed : e \in Entries
    BY DEF TypeOK
  <2> QED BY <2>0, <2>1, <2>2, <2>3, <2>4, <2>5
<1> QED BY <1>1, <1>2

-----------------------------------------------------------------------------
LEMMA TrackedStep ==
  ASSUME SafeInv, [Next]_vars, NEW s \in Sockets, NEW w \in Workflows
  PROVE  /\ w \in tracked'[s] /\ w \notin tracked[s] =>
              \E h \in Handlers : JoinTracks(h) /\ EntryOf(h) = <<w, s>>
         /\ w \in tracked[s] /\ w \notin tracked'[s] =>
              \/ \E h \in Handlers : LeaveUntracks(h) /\ EntryOf(h) = <<w, s>>
              \/ Crash \/ GuestDropped(s)
<1> USE DEF history, SafeInv
<1> DEFINE Tracked ==
      /\ w \in tracked'[s] /\ w \notin tracked[s] =>
           \E h \in Handlers : JoinTracks(h) /\ EntryOf(h) = <<w, s>>
      /\ w \in tracked[s] /\ w \notin tracked'[s] =>
           \/ \E h \in Handlers : LeaveUntracks(h) /\ EntryOf(h) = <<w, s>>
           \/ Crash \/ GuestDropped(s)
<1>1. ASSUME NEW h \in Handlers, Answers(h) \/ Rejects(h) PROVE Tracked
  <2>1. CASE JoinTracks(h)
    <3>1. tracked' = [tracked EXCEPT ![SocketOf(h)] = @ \union {EntryOf(h)[1]}] /\ job[h].at = "tracking"
      BY <2>1 DEF JoinTracks
    <3> QED BY <2>1, <3>1, HandlerOf DEF TypeOK
  <2>2. CASE LeaveUntracks(h)
    <3>1. tracked' = [tracked EXCEPT ![SocketOf(h)] = @ \ {EntryOf(h)[1]}] /\ job[h].at = "untracking"
      BY <2>2 DEF LeaveUntracks
    <3> QED BY <2>2, <3>1, HandlerOf DEF TypeOK
  <2> QED BY <1>1, <2>1, <2>2 DEF Answers, Rejects, Beat, JoinRefused, JoinLists, JoinAddresses, JoinOpens,
           LeaveLooks, LeaveRemoves, LeaveUnaddresses, LeaveEnds
<1>2. CASE Requests \/ SweepRejects \/ UNCHANGED vars
  BY <1>2 DEF Requests, Connect, Disconnect, Join, Leave, Heartbeat, Receive, SweepRejects, vars
<1>3. CASE Crash
  BY <1>3 DEF Crash
<1>4. CASE Sweeps \/ \E d \in Entries : Age(d)
  BY <1>4 DEF Sweeps, SweepFinds, SweepRemoves, SweepUnaddresses, SweepMarks, Age
<1>5. ASSUME NEW r \in Sockets, Closes(r) PROVE Tracked
  BY <1>5 DEF Closes, LeaveNext, LoopEnds, GuestDropped, Close, TypeOK
<1> QED BY <1>1, <1>2, <1>3, <1>4, <1>5 DEF Next

\* What the end of a disconnect handler does.
LEMMA ClosedStep ==
  ASSUME SafeInv, [Next]_vars, NEW s \in Sockets
  PROVE  /\ conn'[s] = "closed" /\ conn[s] # "closed" =>
              job'[s] = Idle /\ tracked'[s] = {} /\ (LoopEnds(s) \/ GuestDropped(s))
         /\ conn[s] = "gone" /\ job[s] = Idle => conn'[s] = "gone" /\ job'[s] = Idle
         /\ conn[s] = "closed" /\ job[s] = Idle => conn'[s] = "closed" /\ job'[s] = Idle
         /\ job'[s].at = "dropping" /\ job[s].at # "dropping" => LoopEnds(s)
<1> USE DEF history, SafeInv
<1> DEFINE Closed ==
      /\ conn'[s] = "closed" /\ conn[s] # "closed" =>
           job'[s] = Idle /\ tracked'[s] = {} /\ (LoopEnds(s) \/ GuestDropped(s))
      /\ conn[s] \in {"gone", "closed"} /\ job[s] = Idle => conn'[s] = conn[s]
<1>1. Closed
  <2>1. CASE conn' = conn
    BY <2>1
  <2>2. ASSUME NEW h \in Handlers, Answers(h) \/ Rejects(h) PROVE conn' = conn
    BY <2>2 DEF Answers, Rejects, Beat, JoinRefused, JoinLists, JoinAddresses, JoinOpens, JoinTracks,
             LeaveLooks, LeaveRemoves, LeaveUnaddresses, LeaveEnds, LeaveUntracks
  <2>3. ASSUME NEW r \in Sockets, Connect(r) \/ Disconnect(r) PROVE Closed
    BY <2>3 DEF Connect, Disconnect, TypeOK
  <2>4. ASSUME NEW m \in Messages, NEW r \in Sockets, NEW w \in Workflows,
               Join(m, r, w) \/ Leave(m, r, w) \/ Heartbeat(m, r, w)
        PROVE  conn' = conn
    BY <2>4 DEF Join, Leave, Heartbeat, Receive
  <2>5. CASE Sweeps \/ SweepRejects \/ (\E e \in Entries : Age(e)) \/ UNCHANGED vars
    BY <2>5 DEF Sweeps, SweepFinds, SweepRemoves, SweepUnaddresses, SweepMarks, SweepRejects, Age, vars
  <2>6. CASE Crash
    BY <2>6 DEF Crash, TypeOK
  <2>7. ASSUME NEW r \in Sockets, NEW w \in Workflows, LeaveNext(r, w) PROVE conn' = conn
    BY <2>7 DEF LeaveNext
  <2>8. ASSUME NEW r \in Sockets, LoopEnds(r) \/ GuestDropped(r) PROVE Closed
    <3>1. job[r] # Idle
      BY <2>8, JobTypes, Ids DEF LoopEnds, GuestDropped
    <3> QED BY <2>8, <3>1, Ids DEF LoopEnds, GuestDropped, Close, Return, TypeOK
  <2> QED BY <2>1, <2>2, <2>3, <2>4, <2>5, <2>6, <2>7, <2>8 DEF Next, Requests, Closes
<1>2. ASSUME conn[s] \in {"gone", "closed"}, job[s] = Idle PROVE job'[s] = Idle
  <2>1. s \in Handlers /\ s \notin Messages /\ job[s].at = "idle"
    BY <1>2, Ids DEF Idle
  <2>2. ~(Answers(s) \/ Rejects(s) \/ Closes(s))
    BY <2>1 DEF Answers, Rejects, Beat, JoinRefused, JoinLists, JoinAddresses, JoinOpens, JoinTracks,
             LeaveLooks, LeaveRemoves, LeaveUnaddresses, LeaveEnds, LeaveUntracks,
             Closes, LeaveNext, LoopEnds, GuestDropped
  <2>3. ~Disconnect(s)
    BY <1>2 DEF Disconnect
  <2>4. CASE Crash
    BY <2>1, <2>4 DEF Crash
  <2> QED BY <1>2, <2>1, <2>2, <2>3, <2>4, JobStep
<1>3. ASSUME job'[s].at = "dropping", job[s].at # "dropping" PROVE LoopEnds(s)
  <2>1. s \in Handlers /\ s \notin Messages /\ job'[s] # job[s]
    BY <1>3, Ids
  <2>2. CASE Answers(s) \/ Rejects(s)
    <3>1. job[s] # Idle
      BY <2>1, <2>2, JobTypes DEF Answers, Rejects, Beat, JoinRefused, JoinLists, JoinAddresses, JoinOpens,
            JoinTracks, LeaveLooks, LeaveRemoves, LeaveUnaddresses, LeaveEnds, LeaveUntracks
    <3>2. CASE JoinLists(s) \/ JoinAddresses(s) \/ JoinOpens(s)
      BY <1>3, <2>1, <3>1, <3>2, GotoStep DEF JoinLists, JoinAddresses, JoinOpens
    <3>3. CASE Beat(s) \/ JoinRefused(s) \/ JoinTracks(s) \/ Rejects(s)
      BY <1>3, <2>1, <3>3 DEF Beat, JoinRefused, JoinTracks, Rejects, Return, Idle, TypeOK
    <3>4. CASE LeaveLooks(s) \/ LeaveRemoves(s) \/ LeaveUnaddresses(s) \/ LeaveEnds(s)
      BY <1>3, <2>1, <3>1, <3>4, GotoStep DEF LeaveLooks, LeaveRemoves, LeaveUnaddresses, LeaveEnds
    <3>5. CASE LeaveUntracks(s)
      BY <1>3, <2>1, <3>5 DEF LeaveUntracks, Return, Loop, Idle, TypeOK
    <3> QED BY <2>2, <3>2, <3>3, <3>4, <3>5 DEF Answers
  <2>3. CASE Crash
    BY <1>3, <2>1, <2>3 DEF Crash, Idle
  <2>4. ASSUME NEW r \in Sockets, NEW w \in Workflows, Join(s, r, w) \/ Leave(s, r, w) \/ Heartbeat(s, r, w)
        PROVE  FALSE
    BY <1>3, <2>1, <2>4 DEF Join, Leave, Heartbeat, Receive, TypeOK
  <2>5. ~(Disconnect(s) \/ GuestDropped(s))
    BY <1>3, <2>1 DEF Disconnect, GuestDropped, Close, Loop, Return, Idle, TypeOK
  <2>6. ASSUME NEW w \in Workflows, LeaveNext(s, w) PROVE FALSE
    BY <1>3, <2>1, <2>6 DEF LeaveNext, TypeOK
  <2> QED BY <2>1, <2>2, <2>3, <2>4, <2>5, <2>6, JobStep DEF Closes
<1> QED BY <1>1, <1>2, <1>3

LEMMA TrackFactsNext ==
  ASSUME SafeInv, TrackFacts, [Next]_vars
  PROVE  TrackFacts'
<1> USE DEF SafeInv, history
<1> SUFFICES ASSUME NEW s \in Sockets
             PROVE  /\ conn'[s] = "closed" => job'[s] = Idle
                    /\ conn'[s] = "closed" \/ job'[s].at = "dropping" =>
                         \A w \in tracked'[s] : <<w, s>> \in late'
                    /\ \A w \in Workflows : <<w, s>> \in listed' =>
                         \/ w \in tracked'[s] \/ At(<<w, s>>, Joining \ {"listing"})'
                         \/ <<w, s>> \in muddled' \union late'
                         \/ conn'[s] = "gone" /\ job'[s] = Idle
  BY DEF TrackFacts, At
<1>0. /\ conn[s] = "closed" => job[s] = Idle
      /\ conn[s] = "closed" \/ job[s].at = "dropping" => \A w \in tracked[s] : <<w, s>> \in late
      /\ \A w \in Workflows : <<w, s>> \in listed =>
           \/ w \in tracked[s] \/ At(<<w, s>>, Joining \ {"listing"})
           \/ <<w, s>> \in muddled \union late
           \/ conn[s] = "gone" /\ job[s] = Idle
  BY DEF TrackFacts
<1>1. conn'[s] = "closed" => job'[s] = Idle
  BY <1>0, ClosedStep
<1>2. ASSUME conn'[s] = "closed" \/ job'[s].at = "dropping", NEW w \in tracked'[s]
      PROVE  <<w, s>> \in late'
  <2>0. w \in Workflows
    BY TypeNext DEF TypeOK
  <2>1. CASE conn[s] = "closed" \/ job[s].at = "dropping"
    <3>1. CASE w \in tracked[s]
      BY <1>0, <2>1, <3>1, ExcusesGrow
    <3>2. CASE w \notin tracked[s]
      <4>1. PICK h \in Handlers : JoinTracks(h) /\ EntryOf(h) = <<w, s>>
        BY <1>2, <2>0, <3>2, TrackedStep
      <4>2. SocketOf(h) = s
        BY <4>1 DEF EntryOf, SocketOf
      <4>3. conn[s] # "connected" /\ job[s].at \notin Leaving \union {"looping"}
        BY <1>0, <2>1, JobTypes, Ids DEF JobFacts, Leaving, Idle
      <4> QED BY <4>1, <4>2, <4>3 DEF JoinTracks
    <3> QED BY <3>1, <3>2
  <2>2. CASE ~(conn[s] = "closed" \/ job[s].at = "dropping")
    <3>1. conn'[s] # "closed" \/ tracked'[s] = {}
      BY <2>2, ClosedStep
    <3>2. LoopEnds(s) => tracked[s] = {} /\ tracked'[s] \subseteq tracked[s]
      BY DEF LoopEnds, Close, TypeOK
    <3> QED BY <1>2, <2>2, <3>1, <3>2, ClosedStep
  <2> QED BY <2>1, <2>2
<1>3. ASSUME NEW w \in Workflows, <<w, s>> \in listed'
      PROVE  \/ w \in tracked'[s] \/ At(<<w, s>>, Joining \ {"listing"})'
             \/ <<w, s>> \in muddled' \union late'
             \/ conn'[s] = "gone" /\ job'[s] = Idle
  <2>0. <<w, s>> \in Entries
    BY DEF Entries
  <2>1. CASE <<w, s>> \notin listed
    <3>1. PICK h \in Handlers : JoinLists(h) /\ EntryOf(h) = <<w, s>>
      BY <1>3, <2>0, <2>1, ListedStep
    <3>2. job[h] # Idle
      BY <3>1, JobTypes DEF JoinLists
    <3>3. job'[h].at \in {"addressing", "tracking"} /\ job'[h].of = <<w, s>>
      BY <3>1, <3>2, GotoStep DEF JoinLists, EntryOf
    <3> QED BY <3>3 DEF At, Joining
  <2>2. CASE <<w, s>> \in listed /\ w \in tracked[s] /\ w \notin tracked'[s]
    <3>1. ASSUME NEW h \in Handlers, LeaveUntracks(h), EntryOf(h) = <<w, s>> PROVE <<w, s>> \in muddled
      BY <2>2, <3>1 DEF LeaveUntracks, ListFacts
    <3>2. CASE Crash
      <4>1. conn[s] # "away"
        BY <2>0, <2>2 DEF OwnerFacts
      <4>2. job'[s] = Idle /\ conn'[s] = IF conn[s] = "connected" THEN "gone" ELSE conn[s]
        BY <3>2, Ids DEF Crash
      <4> QED BY <1>0, <2>2, <4>1, <4>2, ExcusesGrow DEF TypeOK
    <3>3. CASE GuestDropped(s)
      BY <1>0, <2>2, <3>3, ExcusesGrow DEF GuestDropped
    <3> QED BY <2>2, <3>1, <3>2, <3>3, TrackedStep, ExcusesGrow
  <2>3. ASSUME NEW h \in Handlers, job[h].at \in Joining \ {"listing"}, job[h].of = <<w, s>>
        PROVE  \/ w \in tracked'[s] \/ At(<<w, s>>, Joining \ {"listing"})'
               \/ <<w, s>> \in muddled'
    <3>0. job[h] # Idle /\ SocketOf(h) = s /\ EntryOf(h) = <<w, s>>
      BY <2>3, JobTypes DEF Joining, SocketOf, EntryOf
    <3>1. CASE job'[h] = job[h]
      BY <2>3, <3>1 DEF At
    <3>2. CASE JoinAddresses(h) \/ JoinOpens(h)
      BY <2>3, <3>0, <3>2, GotoStep DEF JoinAddresses, JoinOpens, At, Joining
    <3>3. CASE JoinTracks(h)
      BY <3>0, <3>3 DEF JoinTracks, TypeOK
    <3>4. CASE Rejects(h) \/ Crash
      BY <2>3, <3>0, <3>4 DEF Rejects, Crash, Unfinished, Joining
    <3>5. ASSUME NEW r \in Sockets, NEW v \in Workflows, Join(h, r, v) \/ Leave(h, r, v) \/ Heartbeat(h, r, v)
          PROVE  FALSE
      BY <3>0, <3>5 DEF Join, Leave, Heartbeat, Receive
    <3>6. h \notin Sockets
      BY <2>3, <3>0 DEF JobFacts
    <3>7. Answers(h) => JoinAddresses(h) \/ JoinOpens(h) \/ JoinTracks(h)
      BY <2>3 DEF Answers, Beat, JoinRefused, JoinLists, LeaveLooks, LeaveRemoves, LeaveUnaddresses,
                  LeaveEnds, LeaveUntracks, Joining
    <3> QED BY <3>1, <3>2, <3>3, <3>4, <3>5, <3>6, <3>7, JobStep
  <2>4. CASE <<w, s>> \in muddled \union late
    BY <2>4, ExcusesGrow
  <2>5. CASE conn[s] = "gone" /\ job[s] = Idle
    BY <2>5, ClosedStep
  <2> QED BY <1>0, <2>1, <2>2, <2>3, <2>4, <2>5 DEF At
<1> QED BY <1>1, <1>2, <1>3

-----------------------------------------------------------------------------
LEMMA InitIInv == Init => IInv
<1> SUFFICES ASSUME Init PROVE IInv
  OBVIOUS
<1> USE DEF Init
<1>1. TypeOK
  BY BoundsAssumption, NobodyAssumption DEF TypeOK, Job, Sweep, Resting, IsGuest, Idle
<1>2. JobFacts
  BY DEF JobFacts, Idle
<1>3. OwnerFacts
  BY Ids DEF OwnerFacts, Resting
<1>4. CrossFacts /\ ListFacts
  BY DEF CrossFacts, ListFacts, Idle, Joining
<1>5. SweptFacts /\ ListedIsSweepable
  BY DEF SweptFacts, ListedIsSweepable
<1>6. TrackFacts
  BY Ids DEF TrackFacts, Idle
<1>7. AddressIsListed
  BY DEF AddressIsListed
<1> QED BY <1>1, <1>2, <1>3, <1>4, <1>5, <1>6, <1>7 DEF IInv, SafeInv

\* The inductive invariant of the presence in a workflow.
THEOREM Invariant == Spec => []IInv
<1>1. IInv /\ [Next]_vars => IInv'
  <2> SUFFICES ASSUME IInv, [Next]_vars PROVE IInv'
    OBVIOUS
  <2> USE DEF IInv
  <2>1. SafeInv'
    BY TypeNext, JobFactsNext, OwnerFactsNext, CrossNext, ListFactsNext DEF SafeInv
  <2> QED BY <2>1, SweptFactsNext, TrackFactsNext, SweepableNext, AddressNext
<1> QED BY InitIInv, <1>1, PTL DEF Spec

\* Connections, keys, rows, handlers and the sweep keep their types.
THEOREM TypeCorrect == Spec => []TypeOK
<1>1. IInv => TypeOK
  BY DEF IInv, SafeInv
<1> QED BY <1>1, Invariant, PTL

\* An entry that no leave or fault has muddled has a row the sweep can find.
THEOREM SweepFindsAll == Spec => []ListedIsSweepable
<1>1. IInv => ListedIsSweepable
  BY DEF IInv
<1> QED BY <1>1, Invariant, PTL

\* A connection whose disconnect handler is through is in no workflow.
THEOREM ClosedLeave == Spec => []ClosedIsUnlisted
<1>1. IInv => ClosedIsUnlisted
  <2> SUFFICES ASSUME IInv, NEW e \in listed, conn[e[2]] = "closed"
               PROVE  At(e, Joining) \/ e \in muddled \union late
    BY DEF ClosedIsUnlisted
  <2> USE DEF IInv, SafeInv
  <2>1. e \in Entries
    BY DEF TypeOK
  <2>2. PICK w \in Workflows, s \in Sockets : e = <<w, s>> /\ e[2] = s
    BY <2>1, Ids
  <2>3. w \in tracked[s] => e \in late
    BY <2>2 DEF TrackFacts
  <2>4. At(e, Joining \ {"listing"}) => At(e, Joining)
    BY DEF At
  <2> QED BY <2>2, <2>3, <2>4 DEF TrackFacts
<1> QED BY <1>1, Invariant, PTL

\* The address of a user is a connection that is in some workflow.
THEOREM AddressesAreListed == Spec => []AddressIsListed
<1>1. IInv => AddressIsListed
  BY DEF IInv
<1> QED BY <1>1, Invariant, PTL

-----------------------------------------------------------------------------
(* Who has gone stays gone.                                                *)

\* A connection that has ended is not opened again.
LEMMA GoneStays ==
  ASSUME TypeOK, [Next]_vars, NEW s \in Sockets, conn[s] \in {"gone", "closed"}
  PROVE  conn'[s] \in {"gone", "closed"}
<1> USE DEF TypeOK, history
<1>1. ASSUME NEW r \in Sockets, Connect(r) \/ Disconnect(r) PROVE conn'[s] \in {"gone", "closed"}
  BY <1>1 DEF Connect, Disconnect
<1>2. ASSUME NEW r \in Sockets, Closes(r) PROVE conn'[s] \in {"gone", "closed"}
  BY <1>2 DEF Closes, LeaveNext, LoopEnds, GuestDropped, Close
<1>3. CASE Crash
  BY <1>3 DEF Crash
<1>4. CASE UNCHANGED conn
  BY <1>4
<1>5. ASSUME NEW h \in Handlers, Answers(h) \/ Rejects(h) PROVE UNCHANGED conn
  BY <1>5 DEF Answers, Rejects, Beat, JoinRefused, JoinLists, JoinAddresses, JoinOpens, JoinTracks,
              LeaveLooks, LeaveRemoves, LeaveUnaddresses, LeaveEnds, LeaveUntracks
<1>6. ASSUME NEW m \in Messages, NEW r \in Sockets, NEW w \in Workflows,
             Join(m, r, w) \/ Leave(m, r, w) \/ Heartbeat(m, r, w)
      PROVE  UNCHANGED conn
  BY <1>6 DEF Join, Leave, Heartbeat, Receive
<1>7. CASE Sweeps \/ SweepRejects \/ (\E e \in Entries : Age(e)) \/ UNCHANGED vars
  BY <1>4, <1>7 DEF Sweeps, SweepFinds, SweepRemoves, SweepUnaddresses, SweepMarks, SweepRejects, Age, vars
<1> QED BY <1>1, <1>2, <1>3, <1>4, <1>5, <1>6, <1>7 DEF Next, Requests

\* A join stands before the hash only from its message on.
LEMMA ListingStep ==
  ASSUME TypeOK, JobFacts, OwnerFacts, [Next]_vars, NEW k \in Handlers,
         job'[k].at = "listing", job'[k] # job[k]
  PROVE  \E s \in Sockets, w \in Workflows : Join(k, s, w) /\ EntryOf(k)' = <<w, s>>
<1> SUFFICES ASSUME job[k].at \in Joining PROVE FALSE
  BY JoiningStep DEF Joining
<1>1. job[k] # Idle
  BY DEF Joining, Idle
<1>2. ~(JoinLists(k) \/ JoinAddresses(k) \/ JoinOpens(k))
  BY <1>1, GotoStep DEF JoinLists, JoinAddresses, JoinOpens
<1>3. ~(JoinRefused(k) \/ JoinTracks(k) \/ Rejects(k) \/ Crash)
  BY DEF JoinRefused, JoinTracks, Rejects, Crash, Return, Idle, TypeOK
<1>4. Answers(k) => JoinRefused(k) \/ JoinLists(k) \/ JoinAddresses(k) \/ JoinOpens(k) \/ JoinTracks(k)
  BY DEF Answers, Joining, Beat, LeaveLooks, LeaveRemoves, LeaveUnaddresses, LeaveEnds, LeaveUntracks
<1>5. k \notin Sockets
  BY <1>1 DEF JobFacts
<1>6. \A s \in Sockets, w \in Workflows : ~(Join(k, s, w) \/ Leave(k, s, w) \/ Heartbeat(k, s, w))
  BY <1>1 DEF Join, Leave, Heartbeat, Receive
<1> QED BY <1>2, <1>3, <1>4, <1>5, <1>6, JobStep

\* The entry of an ended connection that is off the hash, with no join left to put it
\* there, never returns: only a message begins a join, and none comes any more.
THEOREM DepartedForGood == Spec => DepartedStays
<1>1. IInv /\ [Next]_vars => [\A e \in Entries : Departed(e) => Departed(e)']_vars
  <2> SUFFICES ASSUME IInv, [Next]_vars, NEW e \in Entries, Departed(e) PROVE Departed(e)'
    OBVIOUS
  <2> USE DEF IInv, SafeInv
  <2>1. e[2] \in Sockets /\ conn'[e[2]] \in {"gone", "closed"}
    BY Ids, GoneStays DEF Departed
  <2>2. e \notin listed'
    BY ListedStep DEF Departed, At, JoinLists, EntryOf
  <2>3. ASSUME NEW h \in Handlers, job'[h].at = "listing", job'[h].of = e PROVE FALSE
    <3>1. job'[h] # job[h]
      BY <2>3 DEF Departed, At
    <3>2. PICK s \in Sockets, w \in Workflows : Join(h, s, w) /\ EntryOf(h)' = <<w, s>>
      BY <2>3, <3>1, ListingStep
    <3>3. e[2] = s
      BY <2>3, <3>2 DEF EntryOf
    <3>4. conn[s] = "connected"
      BY <3>2 DEF Join, Receive
    <3> QED BY <3>3, <3>4 DEF Departed
  <2> QED BY <2>1, <2>2, <2>3 DEF Departed, At
<1> QED BY <1>1, Invariant, PTL DEF Spec, DepartedStays
=============================================================================
