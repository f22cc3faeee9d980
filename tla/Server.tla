------------------------------- MODULE Server -------------------------------
(***************************************************************************)
(* The session table of the FrontierMP server: which endpoint is which     *)
(* player, what becomes of a player that falls silent, and how a Hello     *)
(* with a session token gets the same player back.                         *)
(*                                                                         *)
(* The server runs one thread.  A tick takes the time, handles every       *)
(* datagram that waits, and ends with prune(nowMs); the ReceiveX actions   *)
(* below are the datagrams of a tick and EndTick is its end.  The sender   *)
(* is left open: any endpoint may send anything at any time.  What         *)
(* accept() decides on a sequence number is left open too (a datagram      *)
(* either reaches its handler or is discarded); ReceiveWindow and          *)
(* ReliableChannel model that decision.  What the server sends does not    *)
(* come back into this state and is not modelled here.                     *)
(*                                                                         *)
(* A session is known by its token.  make_session_token draws 128 random   *)
(* bits; here tokens are numbered in the order of their creation, and 0    *)
(* stands for the empty string and for a token nobody was ever given.      *)
(* PlayerState is reduced to a place on a line; the synthetic place        *)
(* (0,0,0) of a player who has not reported yet is Origin.                 *)
(***************************************************************************)
EXTENDS Integers

CONSTANTS
    Endpoint,       \* host:port keys of connections_ and resumes_
    Place,          \* places a client can report
    MaxStep,        \* maxAcceptedSpeedMps * 0.25 s
    ClientTimeout,  \* config_.clientTimeoutMs
    ResumeGrace,    \* config_.resumeGraceMs
    IdSpace,        \* 2^16 in the code: the values of a player id
    NoOne,          \* no entry in a map
    MaxSessions,    \* bound: sessions ever created
    MaxTime,        \* bound: the last instant
    MaxGap          \* bound: the longest time from a tick to the next

Origin == 0

ASSUME ServerAssumption ==
    /\ Place \subseteq Int \ {Origin}
    /\ MaxStep \in Nat
    /\ ClientTimeout \in Nat \ {0}
    /\ ResumeGrace \in Nat
    /\ IdSpace \in Nat /\ IdSpace > 1
    /\ MaxSessions \in Nat
    /\ MaxTime \in Nat \ {0}
    /\ MaxGap \in Nat

VARIABLES
    now,            \* nowMs of the tick that is running
    conn,           \* connections_
    resumes,        \* resumes_
    nextPlayerId,   \* nextPlayerId_
    issued,         \* how many session tokens have been made
    leaving         \* ghost: endpoints whose last handled message is Goodbye

vars == <<now, conn, resumes, nextPlayerId, issued, leaving>>

PlayerId == 0..(IdSpace - 1)
Token == 0..MaxSessions
Where == Place \cup {Origin}

Connection == [welcomed : BOOLEAN, playerId : PlayerId, token : Token,
               last : 0..MaxTime, pos : Where, initialized : BOOLEAN]

ResumeRecord == [playerId : PlayerId, token : Token, pos : Where,
                 expires : 0..(MaxTime + ResumeGrace)]

ASSUME NoOneAssumption == NoOne \notin Connection \cup ResumeRecord

TypeOK ==
    /\ now \in 1..MaxTime
    /\ conn \in [Endpoint -> Connection \cup {NoOne}]
    /\ resumes \in [Endpoint -> ResumeRecord \cup {NoOne}]
    /\ nextPlayerId \in PlayerId
    /\ issued \in Token
    /\ leaving \subseteq Endpoint

Init ==
    /\ now = 1
    /\ conn = [e \in Endpoint |-> NoOne]
    /\ resumes = [e \in Endpoint |-> NoOne]
    /\ nextPlayerId = 1
    /\ issued = 0
    /\ leaving = {}

-----------------------------------------------------------------------------
Welcomed(e) == conn[e] # NoOne /\ conn[e].welcomed

\* find_connection, or create_connection when there is none.
Opened(e) ==
    IF conn[e] # NoOne THEN conn[e]
    ELSE [welcomed |-> FALSE, playerId |-> 0, token |-> 0, last |-> now,
          pos |-> Origin, initialized |-> FALSE]

\* The connection once accept() has let a datagram through.
Heard(e) == [Opened(e) EXCEPT !.last = now]

\* A welcomed connection just heard from.
Seat(id, token, pos, initialized) ==
    [welcomed |-> TRUE, playerId |-> id, token |-> token, last |-> now,
     pos |-> pos, initialized |-> initialized]

\* uint16_t arithmetic on values below 2 * 2^16.
WrapLate(n) == IF n > IdSpace THEN n - IdSpace ELSE n   \* mutant: off by one

Wrap(n) == IF n >= IdSpace THEN n - IdSpace ELSE n

\* allocate_player_id: try the 2^16 - 1 ids from nextPlayerId_ on, skip 0 and
\* the ids of welcomed connections.  Ids kept in resumes_ are not skipped.
Free(id) == id # 0 /\ \A e \in Endpoint : Welcomed(e) => conn[e].playerId # id

Attempt == 0..(IdSpace - 2)

FirstFree ==
    {i \in Attempt : /\ Free(Wrap(nextPlayerId + i))
                     /\ \A j \in 0..(i - 1) : ~Free(Wrap(nextPlayerId + j))}

AllocationStuck ==                            \* mutant: nextPlayerId_ not advanced
    {[id |-> Wrap(nextPlayerId + i), next |-> nextPlayerId] : i \in FirstFree}

Allocation ==
    IF FirstFree # {}
    THEN {[id   |-> Wrap(nextPlayerId + i),
           next |-> Wrap(nextPlayerId + i + 1)] : i \in FirstFree}
    ELSE {[id |-> 0, next |-> Wrap(nextPlayerId + IdSpace - 1)]}

-----------------------------------------------------------------------------
\* A datagram that does not decode, or that accept() refuses.
DiscardPacket(e) ==
    /\ conn' = [conn EXCEPT ![e] = Opened(e)]
    /\ UNCHANGED <<now, resumes, nextPlayerId, issued, leaving>>

\* A Ping, a Hello that does not decode, or a message a server ignores.
ReceiveOther(e) ==
    /\ conn' = [conn EXCEPT ![e] = Heard(e)]
    /\ leaving' = leaving \ {e}
    /\ UNCHANGED <<now, resumes, nextPlayerId, issued>>

\* handle_hello on a connection that has its identity: Welcome is sent again.
HelloAgain(e) ==
    /\ Welcomed(e)
    /\ conn' = [conn EXCEPT ![e] = Heard(e)]
    /\ leaving' = leaving \ {e}
    /\ UNCHANGED <<now, resumes, nextPlayerId, issued>>

\* The records a Hello with this token can resume.
MatchingLate(token) ==                        \* mutant: the expiry is not read
    {r \in Endpoint : /\ resumes[r] # NoOne
                      /\ token # 0
                      /\ resumes[r].token = token}

Matching(token) ==
    {r \in Endpoint : /\ resumes[r] # NoOne
                      /\ token # 0
                      /\ resumes[r].token = token
                      /\ resumes[r].expires >= now}

HelloResumeKept(e, token) ==                  \* mutant: the record is not erased
    /\ ~Welcomed(e)
    /\ \E r \in Matching(token) :
          conn' = [conn EXCEPT ![e] = Seat(resumes[r].playerId,
                                  resumes[r].token, resumes[r].pos, TRUE)]
    /\ leaving' = leaving \ {e}
    /\ UNCHANGED <<now, resumes, nextPlayerId, issued>>

\* handle_hello on a new connection, with the token of a live record, which
\* may have been left by another endpoint.
HelloResume(e, token) ==
    /\ ~Welcomed(e)
    /\ \E r \in Matching(token) :
          /\ conn' = [conn EXCEPT ![e] = Seat(resumes[r].playerId,
                                     resumes[r].token, resumes[r].pos, TRUE)]
          /\ resumes' = [resumes EXCEPT ![r] = NoOne]
    /\ leaving' = leaving \ {e}
    /\ UNCHANGED <<now, nextPlayerId, issued>>

\* handle_hello on a new connection otherwise: a new player.
HelloNew(e, token) ==
    /\ ~Welcomed(e)
    /\ Matching(token) = {}
    /\ issued < MaxSessions
    /\ issued' = issued + 1
    /\ \E a \in Allocation :
          /\ nextPlayerId' = a.next
          /\ conn' = [conn EXCEPT ![e] = Seat(a.id, issued + 1, Origin, FALSE)]
    /\ leaving' = leaving \ {e}
    /\ UNCHANGED <<now, resumes>>

-----------------------------------------------------------------------------
Distance(p, q) == IF p >= q THEN p - q ELSE q - p

AcceptableUnchecked(e, id, p) ==              \* mutant: no movement window
    Welcomed(e) /\ id = conn[e].playerId

\* The checks of handle_player_state on a well-formed, finite state.
Acceptable(e, id, p) ==
    /\ Welcomed(e)
    /\ id = conn[e].playerId
    /\ \/ ~conn[e].initialized
       \/ Distance(conn[e].pos, p) <= MaxStep

ReceivePlayerState(e, id, p) ==
    /\ Acceptable(e, id, p)
    /\ conn' = [conn EXCEPT ![e] =
                  Seat(conn[e].playerId, conn[e].token, p, TRUE)]
    /\ leaving' = leaving \ {e}
    /\ UNCHANGED <<now, resumes, nextPlayerId, issued>>

\* The movement is refused, but its sender was heard.
RejectPlayerState(e, id, p) ==
    /\ ~Acceptable(e, id, p)
    /\ conn' = [conn EXCEPT ![e] = Heard(e)]
    /\ leaving' = leaving \ {e}
    /\ UNCHANGED <<now, resumes, nextPlayerId, issued>>

\* Goodbye backdates the connection so that prune finds it silent.
BackdatedLess ==                              \* mutant: off by one
    IF now > ClientTimeout THEN now - ClientTimeout ELSE 1

Backdated == IF now > ClientTimeout THEN now - ClientTimeout - 1 ELSE 1

ReceiveGoodbye(e) ==
    /\ conn' = [conn EXCEPT ![e] = [Opened(e) EXCEPT !.last = Backdated]]
    /\ leaving' = leaving \cup {e}
    /\ UNCHANGED <<now, resumes, nextPlayerId, issued>>

-----------------------------------------------------------------------------
\* prune, first loop: the connections it erases.
Silent(e) ==
    /\ conn[e] # NoOne
    /\ conn[e].last # 0
    /\ now - conn[e].last > ClientTimeout

\* resumes_ after the first loop: a record replaces the endpoint's older one.
RecordedNever(e) == resumes[e]                \* mutant: no resume record is made

Recorded(e) ==
    IF Silent(e) /\ conn[e].welcomed
    THEN [playerId |-> conn[e].playerId, token |-> conn[e].token,
          pos |-> conn[e].pos, expires |-> now + ResumeGrace]
    ELSE resumes[e]

EndTick(gap) ==
    /\ now + gap <= MaxTime
    /\ now' = now + gap
    /\ conn' = [e \in Endpoint |-> IF Silent(e) THEN NoOne ELSE conn[e]]
    /\ resumes' = [e \in Endpoint |->
          IF Recorded(e) # NoOne /\ Recorded(e).expires < now THEN NoOne
          ELSE Recorded(e)]
    /\ leaving' = {e \in leaving : ~Silent(e)}
    /\ UNCHANGED <<nextPlayerId, issued>>

Next ==
    \/ \E e \in Endpoint :
          \/ DiscardPacket(e)
          \/ ReceiveOther(e)
          \/ HelloAgain(e)
          \/ \E token \in 0..issued : HelloResume(e, token) \/ HelloNew(e, token)
          \/ \E id \in PlayerId, p \in Place :
                ReceivePlayerState(e, id, p) \/ RejectPlayerState(e, id, p)
          \/ ReceiveGoodbye(e)
    \/ \E gap \in 0..MaxGap : EndTick(gap)

Spec == Init /\ [][Next]_vars
=============================================================================
