-------------------------- MODULE ServerProperties --------------------------
(* What the session table of Server promises. *)
EXTENDS Server

\* Everything the server remembers of a player, live or waiting to resume.
Sessions ==
    {[token |-> conn[e].token, playerId |-> conn[e].playerId, pos |-> conn[e].pos] :
        e \in {f \in Endpoint : Welcomed(f)}}
    \cup
    {[token |-> resumes[e].token, playerId |-> resumes[e].playerId,
      pos |-> resumes[e].pos] : e \in {f \in Endpoint : resumes[f] # NoOne}}

HeldTokens == {s.token : s \in Sessions}

(* A session is in one place: two connections, two records, or a connection *)
(* and a record never share a token, however Hellos, timeouts and resumes   *)
(* from other endpoints interleave.                                         *)
OneHolder ==
    \A e, f \in Endpoint :
        /\ Welcomed(e) /\ Welcomed(f) /\ conn[e].token = conn[f].token => e = f
        /\ resumes[e] # NoOne /\ resumes[f] # NoOne
             /\ resumes[e].token = resumes[f].token => e = f
        /\ Welcomed(e) /\ resumes[f] # NoOne => conn[e].token # resumes[f].token

(* Two sessions, live or waiting to resume, have different player ids as    *)
(* long as fewer sessions than ids were ever made.  allocate_player_id does *)
(* not look into resumes_: after that, a resumed player can meet its own id.*)
IdsDistinct ==
    issued < IdSpace =>
        \A s, t \in Sessions : s.playerId = t.playerId => s.token = t.token

(* While a session is remembered it keeps its player id, and its place only *)
(* moves by the movement window, except off the synthetic place; timing out *)
(* and resuming, at the same or at another endpoint, moves nobody.          *)
NoTeleport ==
    [][\A s \in Sessions, t \in Sessions' :
          s.token = t.token =>
              /\ s.playerId = t.playerId
              /\ \/ s.pos = t.pos
                 \/ s.pos = Origin
                 \/ Distance(s.pos, t.pos) <= MaxStep]_vars

(* A session is forgotten only by the tick that finds its grace over, or    *)
(* when its endpoint's next session falls silent and takes the one record   *)
(* an endpoint has.                                                         *)
SessionSurvives ==
    [][\A token \in HeldTokens \ HeldTokens' :
          \E e \in Endpoint :
              /\ resumes[e] # NoOne
              /\ resumes[e].token = token
              /\ \/ resumes[e].expires < now
                 \/ Welcomed(e) /\ Silent(e)]_vars

(* A session out of its grace is not resumed, even by a Hello handled       *)
(* before the tick's prune has removed the record.                          *)
NoLateResume ==
    [][\A e \in Endpoint, r \in Endpoint :
          (/\ ~Welcomed(e) /\ Welcomed(e)'
           /\ resumes[r] # NoOne
           /\ conn'[e].token = resumes[r].token) => resumes[r].expires >= now]_vars

(* A client that says Goodbye and sends nothing more is gone when the tick  *)
(* ends, once the clock is past ClientTimeout + 1.  At ClientTimeout + 1    *)
(* itself the backdated time is 0, which prune reads as `never heard'.      *)
GoodbyePrompt ==
    [][\A gap \in 0..MaxGap : EndTick(gap) =>
          \A e \in leaving :
              now > ClientTimeout + 1 /\ conn[e].last # 0 => conn'[e] = NoOne]_vars

(* server.cpp:170-172: a state is checked for speed only against a place    *)
(* the client reported, never against the synthetic (0,0,0).                *)
BootstrapHonest ==
    \A e \in Endpoint : Welcomed(e) /\ conn[e].initialized => conn[e].pos # Origin
=============================================================================
