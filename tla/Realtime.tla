------------------------------- MODULE Realtime -------------------------------
(***************************************************************************)
(* Who is in a workflow: the gateway's map of joined workflows per socket  *)
(* (memory), the hash of users per workflow and the address of each user   *)
(* (Redis), and the session rows (PostgreSQL), kept by the handlers of     *)
(* join, leave, heartbeat and disconnect and by the periodic sweep.  Keys  *)
(* that expire or only decorate the presence (cursor, viewport, typing,    *)
(* following, rooms) are left out.                                         *)
(*                                                                         *)
(* Workflows and users are those that are not deleted: a deletion takes    *)
(* the session rows along and leaves the entries in Redis, where a sweep   *)
(* that starts from the rows no longer finds those of connections that are *)
(* lost to a crash.  The properties say nothing of such entries.           *)
(*                                                                         *)
(* A step is the code between two awaits.  socket.io does not wait for a   *)
(* handler before it calls the next one, of the same socket or another.    *)
(***************************************************************************)
EXTENDS Naturals, FiniteSets

CONSTANTS
    Workflows, Users,
    Guest,      \* whoever comes by a link
    GuestOf,    \* the workflow of the guests' link
    Nobody,     \* no user, no address
    MaxSockets, \* bound on connections; a client that reconnects has a new one
    MaxAtOnce,  \* bound on messages handled at the same time
    MaxBegun,   \* bound on messages
    MaxFaults   \* bound on rejected statements and crashes

Sockets == 1 .. MaxSockets
Messages == MaxSockets + 1 .. MaxSockets + MaxAtOnce

\* The handlers at work: those of messages, and one of disconnect per socket.
Handlers == Sockets \union Messages

ASSUME GuestAssumption == GuestOf \in Workflows /\ Guest \notin Users
ASSUME NobodyAssumption == Nobody \notin Sockets \union Users \union {Guest}
ASSUME BoundsAssumption ==
    MaxSockets \in Nat /\ MaxAtOnce \in Nat /\ MaxBegun \in Nat /\ MaxFaults \in Nat

Entries == Workflows \X Sockets

VARIABLES
    owner,      \* client.user or client.guest
    conn,       \* connections: closed once the disconnect handler is through
    tracked,    \* socketWorkflows: the workflows each socket has joined
    listed,     \* fields of collab:workflow:{id}:users
    address,    \* collab:user:{id}:socket
    session,    \* isActive and the age of lastHeartbeat of each session row
    job,        \* what each handler does
    sweep,      \* cleanupStaleSessions
    muddled,    \* entries of joins that a leave or a sweep crossed, or cut short
    cut,        \* entries removed by a leave or a sweep that got no further
    late,       \* entries joined after their disconnect handler had looked
    begun,      \* messages so far (bounded by MaxBegun)
    faults      \* faults so far (bounded by MaxFaults)

vars == <<owner, conn, tracked, listed, address, session, job, sweep,
          muddled, cut, late, begun, faults>>

Statements == {"idle", "listing", "addressing", "opening", "tracking", "looking", "removing",
               "unaddressing", "ending", "untracking", "beating", "looping", "dropping"}
Joining == {"listing", "addressing", "opening", "tracking"}
Leaving == {"looking", "removing", "unaddressing", "ending", "untracking"}
NoEntry == <<GuestOf, Nobody>>
Idle == [at |-> "idle", of |-> NoEntry]
Job == [at : Statements \ {"idle"}, of : Entries] \union {Idle}
Sweep == [at : {"idle", "removing"}, of : {NoEntry}, left : SUBSET Entries]
         \union [at : {"unaddressing"}, of : Entries, left : SUBSET Entries]
Resting == [at |-> "idle", of |-> NoEntry, left |-> {}]

IsGuest(s) == owner[s] = Guest

\* The handler of an entry stands at one of the statements.
At(e, stmts) == \E h \in Handlers : job[h].at \in stmts /\ job[h].of = e
Present(e) == session[e] \in {"fresh", "stale"}

Init ==
    /\ owner = [s \in Sockets |-> Nobody]
    /\ conn = [s \in Sockets |-> "away"]
    /\ tracked = [s \in Sockets |-> {}]
    /\ listed = {}
    /\ address = [u \in Users |-> Nobody]
    /\ session = [e \in Entries |-> "none"]
    /\ job = [h \in Handlers |-> Idle]
    /\ sweep = Resting
    /\ muddled = {} /\ cut = {} /\ late = {}
    /\ begun = 0 /\ faults = 0

Goto(h, stmt) == job' = [job EXCEPT ![h].at = stmt]
Loop(s) == job' = [job EXCEPT ![s] = [at |-> "looping", of |-> <<GuestOf, s>>]]
Return(h) == job' = [job EXCEPT ![h] = Idle]
EntryOf(h) == job[h].of
SocketOf(h) == job[h].of[2]
history == <<owner, muddled, cut, late, begun, faults>>

-----------------------------------------------------------------------------
(* Connections and messages.                                               *)

\* handleConnection, for a token or a guest session that is accepted;
\* the ids of sockets are handed out in order.
Connect(s) ==
    /\ conn[s] = "away"
    /\ \A r \in Sockets : r < s => conn[r] # "away"
    /\ conn' = [conn EXCEPT ![s] = "connected"]
    /\ \E o \in Users \union {Guest} : owner' = [owner EXCEPT ![s] = o]
    /\ UNCHANGED <<tracked, listed, address, session, job, sweep, muddled, cut, late, begun, faults>>

Receive(m, s, w, stmt) ==
    /\ job[m] = Idle
    /\ \A n \in Messages : n < m => job[n] # Idle
    /\ conn[s] = "connected"
    /\ begun < MaxBegun
    /\ begun' = begun + 1
    /\ job' = [job EXCEPT ![m] = [at |-> stmt, of |-> <<w, s>>]]
    /\ UNCHANGED <<owner, conn, tracked, listed, address, session, sweep, cut, late, faults>>

\* join:workflow; guests may only join the workflow of their link.
Join(m, s, w) ==
    /\ IsGuest(s) => w = GuestOf
    /\ Receive(m, s, w, "listing")
    /\ muddled' = IF At(<<w, s>>, Leaving) THEN muddled \union {<<w, s>>} ELSE muddled

\* leave:workflow.
Leave(m, s, w) ==
    /\ Receive(m, s, w, IF IsGuest(s) THEN "removing" ELSE "looking")
    /\ muddled' = IF At(<<w, s>>, Joining) THEN muddled \union {<<w, s>>} ELSE muddled

\* heartbeat of a user's socket.
Heartbeat(m, s, w) ==
    /\ ~IsGuest(s)
    /\ Receive(m, s, w, "beating")
    /\ UNCHANGED muddled

Beat(h) ==
    /\ job[h].at = "beating"
    /\ session' = IF Present(EntryOf(h)) THEN [session EXCEPT ![EntryOf(h)] = "fresh"]
                                         ELSE session
    /\ Return(h)
    /\ UNCHANGED <<conn, tracked, listed, address, sweep, history>>

-----------------------------------------------------------------------------
(* The handler of join.                                                    *)

\* The user, the workflow or the membership is not found.
JoinRefused(h) ==
    /\ job[h].at = "listing"
    /\ ~IsGuest(SocketOf(h))
    /\ Return(h)
    /\ UNCHANGED <<conn, tracked, listed, address, session, sweep, history>>

\* Mutant: guests get a session row as well.
JoinListsGuests(h) ==
    /\ job[h].at = "listing"
    /\ listed' = listed \union {EntryOf(h)}
    /\ Goto(h, IF IsGuest(SocketOf(h)) THEN "opening" ELSE "addressing")
    /\ UNCHANGED <<conn, tracked, address, session, sweep, history>>

JoinLists(h) ==
    /\ job[h].at = "listing"
    /\ listed' = listed \union {EntryOf(h)}
    /\ Goto(h, IF IsGuest(SocketOf(h)) THEN "tracking" ELSE "addressing")
    /\ UNCHANGED <<conn, tracked, address, session, sweep, history>>

JoinAddresses(h) ==
    /\ job[h].at = "addressing"
    /\ address' = [address EXCEPT ![owner[SocketOf(h)]] = SocketOf(h)]
    /\ Goto(h, "opening")
    /\ UNCHANGED <<conn, tracked, listed, session, sweep, history>>

JoinOpens(h) ==
    /\ job[h].at = "opening"
    /\ session' = [session EXCEPT ![EntryOf(h)] = "fresh"]
    /\ Goto(h, "tracking")
    /\ UNCHANGED <<conn, tracked, listed, address, sweep, history>>

\* The set of the socket may be gone: then it is made anew.  Nobody will look
\* at it once the loop of the disconnect handler is over.
JoinTracks(h) ==
    LET s == SocketOf(h)
    IN  /\ job[h].at = "tracking"
        /\ tracked' = [tracked EXCEPT ![s] = @ \union {EntryOf(h)[1]}]
        /\ late' = IF conn[s] = "connected" \/ job[s].at \in Leaving \union {"looping"}
                   THEN late ELSE late \union {EntryOf(h)}
        /\ Return(h)
        /\ UNCHANGED <<owner, conn, listed, address, session, sweep, muddled, cut, begun, faults>>

-----------------------------------------------------------------------------
(* The handler of leave, called for a message or by the disconnect handler. *)

LeaveLooks(h) ==
    /\ job[h].at = "looking"
    /\ Goto(h, IF EntryOf(h) \in listed THEN "removing" ELSE "untracking")
    /\ UNCHANGED <<conn, tracked, listed, address, session, sweep, history>>

LeaveRemoves(h) ==
    /\ job[h].at = "removing"
    /\ listed' = listed \ {EntryOf(h)}
    /\ Goto(h, IF IsGuest(SocketOf(h)) THEN "untracking" ELSE "unaddressing")
    /\ UNCHANGED <<conn, tracked, address, session, sweep, history>>

\* Mutant: the address stays.
LeaveKeepsAddress(h) ==
    /\ job[h].at = "unaddressing"
    /\ Goto(h, "ending")
    /\ UNCHANGED <<conn, tracked, listed, address, session, sweep, history>>

\* The address goes whichever of the user's sockets it names.
LeaveUnaddresses(h) ==
    /\ job[h].at = "unaddressing"
    /\ address' = [address EXCEPT ![owner[SocketOf(h)]] = Nobody]
    /\ Goto(h, "ending")
    /\ UNCHANGED <<conn, tracked, listed, session, sweep, history>>

LeaveEnds(h) ==
    /\ job[h].at = "ending"
    /\ session' = IF session[EntryOf(h)] = "none" THEN session
                  ELSE [session EXCEPT ![EntryOf(h)] = "ended"]
    /\ Goto(h, "untracking")
    /\ UNCHANGED <<conn, tracked, listed, address, sweep, history>>

\* Mutant: the socket's whole set is dropped.
LeaveUntracksAll(h) ==
    LET s == SocketOf(h)
    IN  /\ job[h].at = "untracking"
        /\ tracked' = [tracked EXCEPT ![s] = {}]
        /\ IF h = s THEN Loop(s) ELSE Return(h)
        /\ UNCHANGED <<conn, listed, address, session, sweep, history>>

LeaveUntracks(h) ==
    LET s == SocketOf(h)
    IN  /\ job[h].at = "untracking"
        /\ tracked' = [tracked EXCEPT ![s] = @ \ {EntryOf(h)[1]}]
        /\ IF h = s THEN Loop(s) ELSE Return(h)
        /\ UNCHANGED <<conn, listed, address, session, sweep, history>>

-----------------------------------------------------------------------------
(* The disconnect handler: it leaves what the live set holds, also what a  *)
(* join still at work adds to it on the way.                               *)

Disconnect(s) ==
    /\ conn[s] = "connected"
    /\ conn' = [conn EXCEPT ![s] = "gone"]
    /\ Loop(s)
    /\ UNCHANGED <<tracked, listed, address, session, sweep, history>>

LeaveNext(s, w) ==
    /\ job[s].at = "looping"
    /\ w \in tracked[s]
    /\ job' = [job EXCEPT ![s] = [at |-> IF IsGuest(s) THEN "removing" ELSE "looking",
                                  of |-> <<w, s>>]]
    /\ muddled' = IF At(<<w, s>>, Joining) THEN muddled \union {<<w, s>>} ELSE muddled
    /\ UNCHANGED <<owner, conn, tracked, listed, address, session, sweep, cut, late, begun, faults>>

Close(s) ==
    /\ tracked' = [tracked EXCEPT ![s] = {}]
    /\ conn' = [conn EXCEPT ![s] = "closed"]
    /\ Return(s)
    /\ UNCHANGED <<listed, address, session, sweep, history>>

LoopEnds(s) ==
    /\ job[s].at = "looping"
    /\ tracked[s] = {}
    /\ IF IsGuest(s)
       THEN Goto(s, "dropping")
            /\ UNCHANGED <<conn, tracked, listed, address, session, sweep, history>>
       ELSE Close(s)

\* disconnectGuestSession has answered.
GuestDropped(s) == job[s].at = "dropping" /\ Close(s)

-----------------------------------------------------------------------------
(* The sweep.  No session gets old enough for a sweep under way, which     *)
(* reads the clock once.                                                   *)

Age(e) ==
    /\ session[e] = "fresh"
    /\ sweep.at = "idle"
    /\ session' = [session EXCEPT ![e] = "stale"]
    /\ UNCHANGED <<conn, tracked, listed, address, job, sweep, history>>

Stale == {e \in Entries : session[e] = "stale"}

SweepFinds ==
    /\ sweep.at = "idle"
    /\ Stale # {}
    /\ sweep' = [sweep EXCEPT !.at = "removing", !.left = Stale]
    /\ UNCHANGED <<conn, tracked, listed, address, session, job, history>>

SweepRemoves(e) ==
    /\ sweep.at = "removing"
    /\ e \in sweep.left
    /\ listed' = listed \ {e}
    /\ sweep' = [at |-> "unaddressing", of |-> e, left |-> sweep.left \ {e}]
    /\ muddled' = IF At(e, Joining) THEN muddled \union {e} ELSE muddled
    /\ UNCHANGED <<owner, conn, tracked, address, session, job, cut, late, begun, faults>>

SweepUnaddresses ==
    /\ sweep.at = "unaddressing"
    /\ address' = [address EXCEPT ![owner[sweep.of[2]]] = Nobody]
    /\ sweep' = [sweep EXCEPT !.at = "removing", !.of = NoEntry]
    /\ UNCHANGED <<conn, tracked, listed, session, job, history>>

\* Mutant: the rows are marked before all entries are removed.
SweepMarksEarly ==
    /\ sweep.at = "removing"
    /\ session' = [e \in Entries |-> IF e \in Stale THEN "ended" ELSE session[e]]
    /\ sweep' = Resting
    /\ UNCHANGED <<conn, tracked, listed, address, job, history>>

\* updateMany asks again for what is stale: not for what was found.
SweepMarks ==
    /\ sweep.at = "removing"
    /\ sweep.left = {}
    /\ session' = [e \in Entries |-> IF e \in Stale THEN "ended" ELSE session[e]]
    /\ sweep' = Resting
    /\ UNCHANGED <<conn, tracked, listed, address, job, history>>

-----------------------------------------------------------------------------
(* Faults.                                                                 *)

Fault == faults < MaxFaults /\ faults' = faults + 1
Unfinished(h) == job[h].at \in {"addressing", "opening"}

\* PostgreSQL or Redis rejects: the handler throws.  A disconnect handler
\* leaves what is left of its loop as it is.
Rejects(h) ==
    /\ job[h].at \notin {"idle", "tracking", "looping"}
    /\ Fault
    /\ Return(h)
    /\ muddled' = IF Unfinished(h) THEN muddled \union {EntryOf(h)} ELSE muddled
    /\ cut' = IF job[h].at = "unaddressing" THEN cut \union {EntryOf(h)} ELSE cut
    /\ UNCHANGED <<owner, conn, tracked, listed, address, session, sweep, late, begun>>

\* The interval logs the error; the next round finds the rows again.
SweepRejects ==
    /\ sweep.at # "idle"
    /\ Fault
    /\ sweep' = Resting
    /\ cut' = IF sweep.at = "unaddressing" THEN cut \union {sweep.of} ELSE cut
    /\ UNCHANGED <<owner, conn, tracked, listed, address, session, job, muddled, late, begun>>

\* The process stops and starts: no disconnect handler runs, memory is empty.
Crash ==
    /\ Fault
    /\ conn' = [s \in Sockets |-> IF conn[s] = "connected" THEN "gone" ELSE conn[s]]
    /\ tracked' = [s \in Sockets |-> {}]
    /\ job' = [h \in Handlers |-> Idle]
    /\ sweep' = Resting
    /\ muddled' = muddled \union {EntryOf(h) : h \in {k \in Handlers : job[k].at \in Joining}}
    /\ cut' = cut \union {EntryOf(h) : h \in {k \in Handlers : job[k].at = "unaddressing"}}
                  \union IF sweep.at = "unaddressing" THEN {sweep.of} ELSE {}
    /\ UNCHANGED <<owner, listed, address, session, late, begun>>

-----------------------------------------------------------------------------
Requests ==
    \E s \in Sockets :
        \/ Connect(s)
        \/ Disconnect(s)
        \/ \E m \in Messages, w \in Workflows : Join(m, s, w) \/ Leave(m, s, w) \/ Heartbeat(m, s, w)

Answers(h) ==
    \/ Beat(h)
    \/ JoinRefused(h) \/ JoinLists(h) \/ JoinAddresses(h) \/ JoinOpens(h) \/ JoinTracks(h)
    \/ LeaveLooks(h) \/ LeaveRemoves(h) \/ LeaveUnaddresses(h) \/ LeaveEnds(h) \/ LeaveUntracks(h)

Closes(s) == (\E w \in Workflows : LeaveNext(s, w)) \/ LoopEnds(s) \/ GuestDropped(s)

Sweeps == SweepFinds \/ (\E e \in Entries : SweepRemoves(e)) \/ SweepUnaddresses \/ SweepMarks

Next ==
    \/ Requests
    \/ \E h \in Handlers : Answers(h) \/ Rejects(h)
    \/ \E s \in Sockets : Closes(s)
    \/ \E e \in Entries : Age(e)
    \/ Sweeps
    \/ SweepRejects \/ Crash

Spec == Init /\ [][Next]_vars

\* What is awaited is answered, the interval fires, and time passes for the
\* sessions nothing keeps alive.
FairSpec ==
    /\ Spec
    /\ \A h \in Handlers : WF_vars(Answers(h))
    /\ \A s \in Sockets : WF_vars(Closes(s))
    /\ WF_vars(\E e \in Entries : conn[e[2]] # "connected" /\ Age(e))
    /\ WF_vars(Sweeps)

-----------------------------------------------------------------------------
(* Properties.                                                             *)

TypeOK ==
    /\ owner \in [Sockets -> Users \union {Guest, Nobody}]
    /\ conn \in [Sockets -> {"away", "connected", "gone", "closed"}]
    /\ tracked \in [Sockets -> SUBSET Workflows]
    /\ listed \in SUBSET Entries
    /\ address \in [Users -> Sockets \union {Nobody}]
    /\ session \in [Entries -> {"none", "fresh", "stale", "ended"}]
    /\ \A e \in Entries : IsGuest(e[2]) => session[e] = "none"
    /\ job \in [Handlers -> Job]
    /\ sweep \in Sweep
    /\ muddled \in SUBSET Entries /\ cut \in SUBSET Entries /\ late \in SUBSET Entries
    /\ begun \in 0 .. MaxBegun /\ faults \in 0 .. MaxFaults

\* A user in the hash has an active session row, without which the sweep would
\* never find the entry, except while a join has the row yet to write: whatever
\* joins, leaves, sweeps and faults interleave, save on an entry whose join was
\* crossed or cut short.
ListedIsSweepable ==
    \A e \in listed :
        IsGuest(e[2]) \/ Present(e) \/ At(e, {"addressing", "opening"}) \/ e \in muddled

\* A connection whose disconnect handler is through is in no workflow, as user
\* or guest: the handler also leaves what joins still at work added to its set
\* while it looped, and misses only what they add later.
ClosedIsUnlisted ==
    \A e \in listed :
        conn[e[2]] = "closed" => At(e, Joining) \/ e \in muddled \union late

\* The address of a user, where the viewport of a leader and the news of a
\* follower are sent, is a connection that is in some workflow.
AddressIsListed ==
    \A u \in Users :
        LET s == address[u]
        IN  s # Nobody =>
              \/ \E e \in listed : e[2] = s
              \/ \E w \in Workflows :
                    At(<<w, s>>, {"opening", "unaddressing"}) \/ <<w, s>> \in muddled \union cut
              \/ sweep.at = "unaddressing" /\ sweep.of[2] = s

Ghosts == {e \in listed : conn[e[2]] \in {"gone", "closed"} /\ ~IsGuest(e[2]) /\ e \notin muddled}

\* Whatever a connection leaves behind in the hash of a workflow when it ends,
\* by a join still at work, a handler that threw, a sweep that threw or a
\* restart, goes.
GhostsLeave == []<>(Ghosts = {})

\* An entry of a connection that has ended, off the hash and with no join still to
\* put it there.
Departed(e) ==
    conn[e[2]] \in {"gone", "closed"} /\ e \notin listed /\ ~At(e, {"listing"})

\* Who has gone stays gone: no handler that was at work when the connection ended,
\* no sweep, fault or restart and no other socket of the user puts such an entry
\* back, the ones whose join was crossed included.
DepartedStays == [][\A e \in Entries : Departed(e) => Departed(e)']_vars
=============================================================================
