---------------------------- MODULE ServerProofs ----------------------------
(***************************************************************************)
(* Proofs about Server for any endpoints, places, timeouts and id space.   *)
(*                                                                         *)
(* OneHolder and IdsDistinct are not inductive: that a new token is new,   *)
(* and a new id unused, needs a bound on the tokens and ids in use.        *)
(* SessionInv adds it: every token in use was issued, and until the ids    *)
(* have gone round once the player id IS the token's number.               *)
(*                                                                         *)
(* The action properties follow from it and two facts about the table:     *)
(* only a place that was never reported is not checked (Synthetic), and a  *)
(* client that left is backdated (Backdating).                             *)
(***************************************************************************)
EXTENDS ServerProperties, TLAPS

Seated(id, token) ==
    /\ token \in 1..issued
    /\ issued < IdSpace => id = token

SessionInv ==
    /\ \A e \in Endpoint : Welcomed(e) => Seated(conn[e].playerId, conn[e].token)
    /\ \A e \in Endpoint :
          resumes[e] # NoOne => Seated(resumes[e].playerId, resumes[e].token)
    /\ issued < IdSpace => nextPlayerId = Wrap(issued + 1)
    /\ OneHolder

-----------------------------------------------------------------------------
LEMMA OpenedType ==
    ASSUME TypeOK, NEW e \in Endpoint
    PROVE  Opened(e) \in Connection /\ Heard(e) \in Connection
<1>1. Opened(e) \in Connection
  BY ServerAssumption
  DEF TypeOK, Opened, Connection, Where, Token, PlayerId, Origin
<1> QED
  BY <1>1 DEF Heard, Connection, TypeOK

LEMMA WrapType ==
    ASSUME NEW n \in 0..(2 * IdSpace - 1) PROVE Wrap(n) \in PlayerId
  BY ServerAssumption DEF Wrap, PlayerId

LEMMA AllocationType ==
    ASSUME TypeOK, NEW a \in Allocation
    PROVE  a.id \in PlayerId /\ a.next \in PlayerId
<1> USE ServerAssumption DEF TypeOK, PlayerId
<1>1. CASE FirstFree # {}
  <2>1. PICK i \in FirstFree : a = [id   |-> Wrap(nextPlayerId + i),
                                    next |-> Wrap(nextPlayerId + i + 1)]
    BY <1>1 DEF Allocation
  <2>2. /\ nextPlayerId + i \in 0..(2 * IdSpace - 1)
        /\ nextPlayerId + i + 1 \in 0..(2 * IdSpace - 1)
    BY DEF FirstFree, Attempt
  <2> QED
    BY <2>1, <2>2, WrapType
<1>2. CASE FirstFree = {}
  <2>1. a = [id |-> 0, next |-> Wrap(nextPlayerId + IdSpace - 1)]
    BY <1>2 DEF Allocation
  <2>2. nextPlayerId + IdSpace - 1 \in 0..(2 * IdSpace - 1)
    OBVIOUS
  <2> QED
    BY <2>1, <2>2, WrapType
<1> QED
  BY <1>1, <1>2

LEMMA SeatType ==
    ASSUME now \in 1..MaxTime, NEW id \in PlayerId, NEW token \in Token,
           NEW pos \in Where, NEW initialized \in BOOLEAN
    PROVE  Seat(id, token, pos, initialized) \in Connection
  BY ServerAssumption DEF Seat, Connection

LEMMA RecordedType ==
    ASSUME TypeOK, NEW e \in Endpoint
    PROVE  Recorded(e) \in ResumeRecord \cup {NoOne}
<1>1. CASE Silent(e) /\ conn[e].welcomed
  <2>1. conn[e] \in Connection
    BY <1>1 DEF TypeOK, Silent
  <2>2. now + ResumeGrace \in 0..(MaxTime + ResumeGrace)
    BY ServerAssumption DEF TypeOK
  <2> QED
    BY <1>1, <2>1, <2>2 DEF Recorded, Connection, ResumeRecord
<1>2. CASE ~(Silent(e) /\ conn[e].welcomed)
  BY <1>2 DEF Recorded, TypeOK
<1> QED
  BY <1>1, <1>2

(* The table is type correct: ids and backdated times never leave their     *)
(* range, and an entry is always a whole record or absent.                  *)
THEOREM ServerTypeCorrect == Spec => []TypeOK
<1>1. Init => TypeOK
  BY ServerAssumption DEF Init, TypeOK, PlayerId, Token
<1>2. TypeOK /\ [Next]_vars => TypeOK'
  <2> SUFFICES ASSUME TypeOK, [Next]_vars PROVE TypeOK'
    OBVIOUS
  <2> USE ServerAssumption
  <2>1. ASSUME NEW e \in Endpoint,
               DiscardPacket(e) \/ ReceiveOther(e) \/ HelloAgain(e)
        PROVE  TypeOK'
    BY <2>1, OpenedType DEF TypeOK, DiscardPacket, ReceiveOther, HelloAgain
  <2>2. ASSUME NEW e \in Endpoint, NEW token \in 0..issued, HelloResume(e, token)
        PROVE  TypeOK'
    <3>1. PICK r \in Matching(token) :
             /\ conn' = [conn EXCEPT ![e] = Seat(resumes[r].playerId,
                                  resumes[r].token, resumes[r].pos, TRUE)]
             /\ resumes' = [resumes EXCEPT ![r] = NoOne]
      BY <2>2 DEF HelloResume
    <3>2. r \in Endpoint /\ resumes[r] \in ResumeRecord
      BY DEF Matching, TypeOK
    <3>3. Seat(resumes[r].playerId, resumes[r].token, resumes[r].pos, TRUE)
            \in Connection
      BY <3>2, SeatType DEF ResumeRecord, TypeOK
    <3> QED
      BY <2>2, <3>1, <3>2, <3>3 DEF TypeOK, HelloResume
  <2>3. ASSUME NEW e \in Endpoint, NEW token \in 0..issued, HelloNew(e, token)
        PROVE  TypeOK'
    <3>1. PICK a \in Allocation :
             /\ nextPlayerId' = a.next
             /\ conn' = [conn EXCEPT ![e] = Seat(a.id, issued + 1, Origin, FALSE)]
      BY <2>3 DEF HelloNew
    <3>2. issued + 1 \in Token /\ Origin \in Where
      BY <2>3 DEF HelloNew, TypeOK, Token, Where
    <3>3. Seat(a.id, issued + 1, Origin, FALSE) \in Connection
      BY <3>2, SeatType, AllocationType DEF TypeOK
    <3> QED
      BY <2>3, <3>1, <3>2, <3>3, AllocationType DEF TypeOK, HelloNew
  <2>4. ASSUME NEW e \in Endpoint, NEW id \in PlayerId, NEW p \in Place,
               ReceivePlayerState(e, id, p)
        PROVE  TypeOK'
    <3>1. conn[e] \in Connection
      BY <2>4 DEF ReceivePlayerState, Acceptable, Welcomed, TypeOK
    <3>2. Seat(conn[e].playerId, conn[e].token, p, TRUE) \in Connection
      BY <3>1, SeatType DEF Connection, Where, TypeOK
    <3> QED
      BY <2>4, <3>2 DEF TypeOK, ReceivePlayerState
  <2>5. ASSUME NEW e \in Endpoint, NEW id \in PlayerId, NEW p \in Place,
               RejectPlayerState(e, id, p)
        PROVE  TypeOK'
    BY <2>5, OpenedType DEF TypeOK, RejectPlayerState
  <2>6. ASSUME NEW e \in Endpoint, ReceiveGoodbye(e)
        PROVE  TypeOK'
    <3>1. Backdated \in 0..MaxTime
      BY DEF Backdated, TypeOK
    <3>2. [Opened(e) EXCEPT !.last = Backdated] \in Connection
      BY <3>1, OpenedType DEF Connection
    <3> QED
      BY <2>6, <3>2 DEF TypeOK, ReceiveGoodbye
  <2>7. ASSUME NEW gap \in 0..MaxGap, EndTick(gap)
        PROVE  TypeOK'
    <3>1. now' \in 1..MaxTime
      BY <2>7 DEF EndTick, TypeOK
    <3>2. conn' \in [Endpoint -> Connection \cup {NoOne}]
      BY <2>7 DEF EndTick, TypeOK
    <3>3. resumes' \in [Endpoint -> ResumeRecord \cup {NoOne}]
      BY <2>7, RecordedType DEF EndTick
    <3> QED
      BY <2>7, <3>1, <3>2, <3>3 DEF TypeOK, EndTick
  <2>8. CASE UNCHANGED vars
    BY <2>8 DEF TypeOK, vars
  <2> QED
    BY <2>1, <2>2, <2>3, <2>4, <2>5, <2>6, <2>7, <2>8 DEF Next
<1> QED
  BY <1>1, <1>2, PTL DEF Spec

-----------------------------------------------------------------------------
\* A step that seats nobody, unseats nobody and keeps every identity.
Quiet ==
    /\ UNCHANGED <<resumes, nextPlayerId, issued>>
    /\ \A e \in Endpoint :
          /\ Welcomed(e)' = Welcomed(e)
          /\ Welcomed(e) => /\ conn'[e].playerId = conn[e].playerId
                           /\ conn'[e].token = conn[e].token

LEMMA QuietKeeps ==
    ASSUME SessionInv, Quiet PROVE SessionInv'
  BY DEF SessionInv, Quiet, OneHolder, Seated

\* Replacing an endpoint's connection by one of the same identity is quiet.
LEMMA SameIdentity ==
    ASSUME TypeOK, NEW e \in Endpoint, NEW c \in Connection,
           conn' = [conn EXCEPT ![e] = c],
           UNCHANGED <<resumes, nextPlayerId, issued>>,
           c.welcomed = Opened(e).welcomed,
           c.playerId = Opened(e).playerId,
           c.token = Opened(e).token
    PROVE  Quiet
<1>1. \A f \in Endpoint : f # e => conn'[f] = conn[f]
  BY DEF TypeOK
<1>2. conn'[e] = c /\ c # NoOne
  BY NoOneAssumption DEF TypeOK
<1>3. CASE conn[e] = NoOne
  <2>1. c.welcomed = FALSE
    BY <1>3 DEF Opened
  <2> QED
    BY <1>1, <1>2, <1>3, <2>1 DEF Quiet, Welcomed
<1>4. CASE conn[e] # NoOne
  <2>1. Opened(e) = conn[e]
    BY <1>4 DEF Opened
  <2>2. Welcomed(e)' = Welcomed(e)
    BY <1>2, <1>4, <2>1 DEF Welcomed
  <2>3. ASSUME NEW f \in Endpoint, f # e PROVE Welcomed(f)' = Welcomed(f)
    BY <1>1, <2>3 DEF Welcomed
  <2> QED
    BY <1>1, <1>2, <2>1, <2>2, <2>3 DEF Quiet
<1> QED
  BY <1>3, <1>4

LEMMA QuietActions ==
    ASSUME TypeOK, NEW e \in Endpoint,
           \/ DiscardPacket(e) \/ ReceiveOther(e) \/ HelloAgain(e)
           \/ ReceiveGoodbye(e)
           \/ \E id \in PlayerId, p \in Place :
                 ReceivePlayerState(e, id, p) \/ RejectPlayerState(e, id, p)
    PROVE  Quiet
<1> DEFINE o == Opened(e)
           h == Heard(e)
           g == [Opened(e) EXCEPT !.last = Backdated]
<1>0. Backdated \in 0..MaxTime
  BY ServerAssumption DEF Backdated, TypeOK
<1>1. /\ o \in Connection /\ h \in Connection /\ g \in Connection
      /\ h.welcomed = o.welcomed /\ h.playerId = o.playerId /\ h.token = o.token
      /\ g.welcomed = o.welcomed /\ g.playerId = o.playerId /\ g.token = o.token
  BY <1>0, OpenedType DEF Heard, Connection
<1> HIDE DEF o, h, g
<1>2. CASE conn' = [conn EXCEPT ![e] = o] /\ DiscardPacket(e)
  BY <1>1, <1>2, SameIdentity DEF DiscardPacket, o
<1>3. CASE /\ conn' = [conn EXCEPT ![e] = h]
           /\ UNCHANGED <<resumes, nextPlayerId, issued>>
  BY <1>1, <1>3, SameIdentity DEF o
<1>4. CASE ReceiveGoodbye(e)
  <2>1. conn' = [conn EXCEPT ![e] = g]
    BY <1>4 DEF ReceiveGoodbye, g
  <2> QED
    BY <1>1, <1>4, <2>1, SameIdentity DEF ReceiveGoodbye, o
<1>5. ASSUME NEW id \in PlayerId, NEW p \in Place, ReceivePlayerState(e, id, p)
      PROVE  Quiet
  <2> DEFINE s == Seat(conn[e].playerId, conn[e].token, p, TRUE)
  <2>1. Welcomed(e) /\ conn[e] \in Connection /\ Opened(e) = conn[e]
    BY <1>5 DEF ReceivePlayerState, Acceptable, Welcomed, TypeOK, Opened
  <2>2. s \in Connection
    BY <2>1, SeatType DEF Connection, Where, TypeOK
  <2>3. /\ s.welcomed = Opened(e).welcomed
        /\ s.playerId = Opened(e).playerId
        /\ s.token = Opened(e).token
    BY <2>1 DEF Seat, Welcomed, Connection
  <2>4. conn' = [conn EXCEPT ![e] = s]
    BY <1>5 DEF ReceivePlayerState
  <2> HIDE DEF s
  <2> QED
    BY <1>5, <2>2, <2>3, <2>4, SameIdentity DEF ReceivePlayerState
<1> QED
  BY <1>2, <1>3, <1>4, <1>5
  DEF DiscardPacket, ReceiveOther, HelloAgain, RejectPlayerState, o, h

\* Until the ids have gone round once, the next id is free at first try.
LEMMA NextIdFree ==
    ASSUME TypeOK, SessionInv, issued + 1 < IdSpace, NEW a \in Allocation
    PROVE  a.id = issued + 1 /\ a.next = Wrap(issued + 2)
<1> USE ServerAssumption DEF TypeOK, Token
<1>1. nextPlayerId = issued + 1 /\ Wrap(nextPlayerId) = issued + 1
  BY DEF SessionInv, Wrap
<1>2. Free(issued + 1)
  BY DEF Free, SessionInv, Seated
<1>3. 0 \in Attempt /\ Wrap(nextPlayerId + 0) = issued + 1
  BY <1>1 DEF Attempt
<1>4. 0 \in FirstFree
  BY <1>2, <1>3 DEF FirstFree
<1>5. \A i \in FirstFree : i = 0
  <2> SUFFICES ASSUME NEW i \in FirstFree, i # 0 PROVE FALSE
    OBVIOUS
  <2>1. i \in Nat /\ 0 \in 0..(i - 1)
    BY DEF FirstFree, Attempt
  <2> QED
    BY <1>2, <1>3, <2>1 DEF FirstFree
<1>6. a = [id |-> Wrap(nextPlayerId + 0), next |-> Wrap(nextPlayerId + 0 + 1)]
  BY <1>4, <1>5 DEF Allocation
<1>7. nextPlayerId + 0 + 1 = issued + 2
  BY <1>1
<1> QED
  BY <1>3, <1>6, <1>7

LEMMA ResumeKeeps ==
    ASSUME TypeOK, SessionInv, NEW e \in Endpoint, NEW token \in 0..issued,
           HelloResume(e, token)
    PROVE  SessionInv'
<1>1. PICK r \in Matching(token) :
         /\ conn' = [conn EXCEPT ![e] = Seat(resumes[r].playerId,
                              resumes[r].token, resumes[r].pos, TRUE)]
         /\ resumes' = [resumes EXCEPT ![r] = NoOne]
  BY DEF HelloResume
<1>2. /\ r \in Endpoint /\ resumes[r] # NoOne /\ resumes[r] \in ResumeRecord
      /\ ~Welcomed(e)
      /\ UNCHANGED <<nextPlayerId, issued>>
  BY DEF Matching, TypeOK, HelloResume
<1> DEFINE s == Seat(resumes[r].playerId, resumes[r].token, resumes[r].pos, TRUE)
<1>3. s # NoOne /\ s.welcomed /\ s.playerId = resumes[r].playerId
      /\ s.token = resumes[r].token
  <2>1. s \in Connection
    BY <1>2, SeatType DEF ResumeRecord, TypeOK
  <2> QED
    BY <2>1, NoOneAssumption DEF Seat
<1> HIDE DEF s
<1>4. /\ conn'[e] = s
      /\ \A f \in Endpoint : f # e => conn'[f] = conn[f]
      /\ resumes'[r] = NoOne
      /\ \A f \in Endpoint : f # r => resumes'[f] = resumes[f]
  BY <1>1, <1>2 DEF TypeOK, s
<1>5. /\ Welcomed(e)'
      /\ \A f \in Endpoint : f # e => Welcomed(f)' = Welcomed(f)
  <2>1. ASSUME NEW f \in Endpoint, f # e PROVE Welcomed(f)' = Welcomed(f)
    BY <1>4, <2>1 DEF Welcomed
  <2> QED
    BY <1>3, <1>4, <2>1 DEF Welcomed
<1>6. OneHolder'
  BY <1>2, <1>3, <1>4, <1>5 DEF OneHolder, SessionInv
<1>7. \A f \in Endpoint : Welcomed(f)' => Seated(conn[f].playerId, conn[f].token)'
  BY <1>2, <1>3, <1>4, <1>5 DEF SessionInv, Seated
<1>8. \A f \in Endpoint : resumes'[f] # NoOne
                => Seated(resumes[f].playerId, resumes[f].token)'
  BY <1>2, <1>4 DEF SessionInv, Seated
<1> QED
  BY <1>2, <1>6, <1>7, <1>8 DEF SessionInv

LEMMA NewKeeps ==
    ASSUME TypeOK, SessionInv, NEW e \in Endpoint, NEW token \in 0..issued,
           HelloNew(e, token)
    PROVE  SessionInv'
<1>1. PICK a \in Allocation :
         /\ nextPlayerId' = a.next
         /\ conn' = [conn EXCEPT ![e] = Seat(a.id, issued + 1, Origin, FALSE)]
  BY DEF HelloNew
<1>2. /\ ~Welcomed(e) /\ issued' = issued + 1 /\ UNCHANGED resumes
      /\ issued \in Nat
  BY ServerAssumption DEF HelloNew, TypeOK, Token
<1> DEFINE s == Seat(a.id, issued + 1, Origin, FALSE)
<1>3. s # NoOne /\ s.welcomed /\ s.playerId = a.id /\ s.token = issued + 1
  <2>1. issued + 1 \in Token /\ Origin \in Where
    BY <1>2, ServerAssumption DEF HelloNew, TypeOK, Token, Where
  <2>2. s \in Connection
    BY <2>1, SeatType, AllocationType DEF TypeOK
  <2> QED
    BY <2>2, NoOneAssumption DEF Seat
<1> HIDE DEF s
<1>4. /\ conn'[e] = s
      /\ \A f \in Endpoint : f # e => conn'[f] = conn[f]
  BY <1>1 DEF TypeOK, s
<1>5. /\ Welcomed(e)'
      /\ \A f \in Endpoint : f # e => Welcomed(f)' = Welcomed(f)
  <2>1. ASSUME NEW f \in Endpoint, f # e PROVE Welcomed(f)' = Welcomed(f)
    BY <1>4, <2>1 DEF Welcomed
  <2> QED
    BY <1>3, <1>4, <2>1 DEF Welcomed
<1>6. \A f \in Endpoint :
         /\ Welcomed(f) => conn[f].token \in 1..issued
         /\ resumes[f] # NoOne => resumes[f].token \in 1..issued
  BY DEF SessionInv, Seated
<1>7. OneHolder'
  BY <1>2, <1>3, <1>4, <1>5, <1>6 DEF OneHolder, SessionInv
<1>8. issued' < IdSpace => a.id = issued + 1 /\ a.next = Wrap(issued + 2)
  BY <1>2, NextIdFree, ServerAssumption
<1>9. issued' < IdSpace => nextPlayerId' = Wrap(issued' + 1)
  <2>1. issued + 2 = issued' + 1
    BY <1>2
  <2> QED
    BY <1>1, <1>8, <2>1
<1>10. issued' < IdSpace => issued < IdSpace
  BY <1>2, ServerAssumption
<1>11. 1..issued \subseteq 1..issued' /\ issued + 1 \in 1..issued'
  BY <1>2
<1>12. \A f \in Endpoint : Welcomed(f)' => Seated(conn[f].playerId, conn[f].token)'
  BY <1>3, <1>4, <1>5, <1>8, <1>10, <1>11 DEF SessionInv, Seated
<1>13. \A f \in Endpoint : resumes'[f] # NoOne
                => Seated(resumes[f].playerId, resumes[f].token)'
  BY <1>2, <1>10, <1>11 DEF SessionInv, Seated
<1> QED
  BY <1>7, <1>9, <1>12, <1>13 DEF SessionInv

LEMMA PruneKeeps ==
    ASSUME TypeOK, SessionInv, NEW gap \in 0..MaxGap, EndTick(gap)
    PROVE  SessionInv'
<1>1. UNCHANGED <<nextPlayerId, issued>>
  BY DEF EndTick
<1>2. \A e \in Endpoint : conn'[e] = IF Silent(e) THEN NoOne ELSE conn[e]
  BY DEF EndTick
<1>3. ASSUME NEW e \in Endpoint, Welcomed(e)'
      PROVE  Welcomed(e) /\ ~Silent(e) /\ conn'[e] = conn[e]
  BY <1>2, <1>3 DEF Welcomed
<1>4. ASSUME NEW e \in Endpoint, resumes'[e] # NoOne
      PROVE  \/ /\ Welcomed(e) /\ Silent(e)
                /\ resumes'[e].playerId = conn[e].playerId
                /\ resumes'[e].token = conn[e].token
             \/ resumes[e] # NoOne /\ resumes'[e] = resumes[e]
  <2>1. resumes'[e] = Recorded(e)
    BY <1>4 DEF EndTick
  <2>2. CASE Silent(e) /\ conn[e].welcomed
    BY <2>1, <2>2 DEF Recorded, Silent, Welcomed
  <2>3. CASE ~(Silent(e) /\ conn[e].welcomed)
    BY <1>4, <2>1, <2>3 DEF Recorded
  <2> QED
    BY <2>2, <2>3
<1>5. OneHolder'
  BY <1>3, <1>4 DEF OneHolder, SessionInv
<1>6. \A e \in Endpoint : Welcomed(e)' => Seated(conn[e].playerId, conn[e].token)'
  BY <1>1, <1>3 DEF SessionInv, Seated
<1>7. \A e \in Endpoint : resumes'[e] # NoOne
                => Seated(resumes[e].playerId, resumes[e].token)'
  BY <1>1, <1>4 DEF SessionInv, Seated
<1> QED
  BY <1>1, <1>5, <1>6, <1>7 DEF SessionInv

LEMMA SessionInductive == Spec => []SessionInv
<1>1. Init => SessionInv
  BY ServerAssumption DEF Init, SessionInv, Welcomed, OneHolder, Wrap
<1>2. TypeOK /\ SessionInv /\ [Next]_vars => SessionInv'
  <2> SUFFICES ASSUME TypeOK, SessionInv, [Next]_vars PROVE SessionInv'
    OBVIOUS
  <2>1. CASE UNCHANGED vars
    BY <2>1, QuietKeeps DEF Quiet, vars, Welcomed
  <2> QED
    BY <2>1, QuietActions, QuietKeeps, ResumeKeeps, NewKeeps, PruneKeeps DEF Next
<1> QED
  BY <1>1, <1>2, ServerTypeCorrect, PTL DEF Spec

-----------------------------------------------------------------------------
(* A session never has two holders, whatever arrives and in whatever order. *)
THEOREM SessionHasOneHolder == Spec => []OneHolder
<1>1. SessionInv => OneHolder
  BY DEF SessionInv
<1> QED
  BY <1>1, SessionInductive, PTL

(* Player ids name sessions uniquely until the 16-bit counter comes round.  *)
THEOREM PlayerIdsDistinct == Spec => []IdsDistinct
<1>1. SessionInv => IdsDistinct
  BY DEF SessionInv, IdsDistinct, Sessions, Seated
<1> QED
  BY <1>1, SessionInductive, PTL

-----------------------------------------------------------------------------
\* What an endpoint holds of a player, as Sessions has it.
Live(e) == [token |-> conn[e].token, playerId |-> conn[e].playerId, pos |-> conn[e].pos]
Kept(e) == [token |-> resumes[e].token, playerId |-> resumes[e].playerId,
            pos |-> resumes[e].pos]

LEMMA SessionsAre ==
    /\ \A s : s \in Sessions <=>
          \/ \E e \in Endpoint : Welcomed(e) /\ s = Live(e)
          \/ \E e \in Endpoint : resumes[e] # NoOne /\ s = Kept(e)
    /\ \A s : s \in Sessions' <=>
          \/ \E e \in Endpoint : Welcomed(e)' /\ s = Live(e)'
          \/ \E e \in Endpoint : resumes'[e] # NoOne /\ s = Kept(e)'
  BY DEF Sessions, Live, Kept

LEMMA TokensAre ==
    ASSUME NEW token
    PROVE  /\ token \in HeldTokens <=>
                \E e \in Endpoint : \/ Welcomed(e) /\ token = conn[e].token
                                    \/ resumes[e] # NoOne /\ token = resumes[e].token
           /\ token \in HeldTokens' <=>
                \E e \in Endpoint : \/ Welcomed(e)' /\ token = conn'[e].token
                                    \/ resumes'[e] # NoOne /\ token = resumes'[e].token
<1>1. \A e \in Endpoint :
         /\ Live(e).token = conn[e].token /\ Live(e)'.token = conn'[e].token
         /\ Kept(e).token = resumes[e].token /\ Kept(e)'.token = resumes'[e].token
  BY DEF Live, Kept
<1>2. /\ token \in HeldTokens <=> \E s \in Sessions : token = s.token
      /\ token \in HeldTokens' <=> \E s \in Sessions' : token = s.token
  BY DEF HeldTokens
<1> QED
  BY <1>1, <1>2, SessionsAre

\* A token names one record, wherever it is held.
LEMMA OneRecord ==
    ASSUME OneHolder, NEW s \in Sessions, NEW t \in Sessions, s.token = t.token
    PROVE  s = t
<1>1. /\ \A e \in Endpoint : Live(e).token = conn[e].token
      /\ \A e \in Endpoint : Kept(e).token = resumes[e].token
  BY DEF Live, Kept
<1>2. CASE \E e \in Endpoint : Welcomed(e) /\ s = Live(e)
  <2>1. PICK e \in Endpoint : Welcomed(e) /\ s = Live(e)
    BY <1>2
  <2>2. \/ \E f \in Endpoint : Welcomed(f) /\ t = Live(f)
        \/ \E f \in Endpoint : resumes[f] # NoOne /\ t = Kept(f)
    BY SessionsAre
  <2> QED
    BY <1>1, <2>1, <2>2 DEF OneHolder
<1>3. CASE \E e \in Endpoint : resumes[e] # NoOne /\ s = Kept(e)
  <2>1. PICK e \in Endpoint : resumes[e] # NoOne /\ s = Kept(e)
    BY <1>3
  <2>2. \/ \E f \in Endpoint : Welcomed(f) /\ t = Live(f)
        \/ \E f \in Endpoint : resumes[f] # NoOne /\ t = Kept(f)
    BY SessionsAre
  <2> QED
    BY <1>1, <2>1, <2>2 DEF OneHolder
<1> QED
  BY <1>2, <1>3, SessionsAre

\* Only a reported place is checked against the window, and a place that is
\* not checked is the synthetic one.
Synthetic ==
    \A e \in Endpoint : Welcomed(e) /\ ~conn[e].initialized => conn[e].pos = Origin

\* A client that left was backdated, to long ago or to the first instant.
Backdating ==
    \A e \in leaving :
        /\ conn[e] # NoOne
        /\ conn[e].last <= 1 \/ conn[e].last + ClientTimeout < now

\* The entry of e after a step that changes no other, as far as both parts of
\* the invariant below are concerned.
LEMMA TableStep ==
    ASSUME TypeOK, Synthetic, Backdating, NEW e \in Endpoint, NEW c \in Connection,
           conn' = [conn EXCEPT ![e] = c], now' = now,
           c.welcomed /\ ~c.initialized => c.pos = Origin,
           \/ leaving' = leaving \ {e}
           \/ /\ leaving' \subseteq leaving \cup {e}
              /\ e \in leaving' => c.last <= 1 \/ c.last + ClientTimeout < now
    PROVE  Synthetic' /\ Backdating'
<1>1. conn'[e] = c /\ \A f \in Endpoint : f # e => conn'[f] = conn[f]
  BY DEF TypeOK
<1>2. c # NoOne
  BY NoOneAssumption
<1>3. Synthetic'
  BY <1>1 DEF Synthetic, Welcomed
<1>4. ASSUME NEW f \in leaving'
      PROVE  conn'[f] # NoOne /\ (conn'[f].last <= 1 \/ conn'[f].last + ClientTimeout < now')
  <2>1. f \in Endpoint
    BY <1>4 DEF TypeOK
  <2>2. CASE f = e
    BY <1>1, <1>2, <1>4, <2>2
  <2>3. CASE f # e
    BY <1>1, <1>4, <2>1, <2>3 DEF Backdating
  <2> QED
    BY <2>2, <2>3
<1> QED
  BY <1>3, <1>4 DEF Backdating

LEMMA TableInductive == Spec => [](Synthetic /\ Backdating)
<1>1. Init => Synthetic /\ Backdating
  BY DEF Init, Synthetic, Backdating, Welcomed
<1>2. TypeOK /\ Synthetic /\ Backdating /\ [Next]_vars => (Synthetic /\ Backdating)'
  <2> SUFFICES ASSUME TypeOK, Synthetic, Backdating, [Next]_vars
               PROVE  (Synthetic /\ Backdating)'
    OBVIOUS
  <2> USE ServerAssumption
  <2>0. \A e \in Endpoint :
           /\ Opened(e) \in Connection /\ Heard(e) \in Connection
           /\ Opened(e).welcomed /\ ~Opened(e).initialized => Opened(e).pos = Origin
           /\ Heard(e).welcomed = Opened(e).welcomed
           /\ Heard(e).initialized = Opened(e).initialized
           /\ Heard(e).pos = Opened(e).pos
    <3> SUFFICES ASSUME NEW e \in Endpoint
                 PROVE  /\ Opened(e).welcomed /\ ~Opened(e).initialized
                             => Opened(e).pos = Origin
                        /\ Heard(e).welcomed = Opened(e).welcomed
                        /\ Heard(e).initialized = Opened(e).initialized
                        /\ Heard(e).pos = Opened(e).pos
      BY OpenedType
    <3>1. Opened(e).welcomed /\ ~Opened(e).initialized => Opened(e).pos = Origin
      BY DEF Synthetic, Welcomed, Opened
    <3> QED
      BY <3>1, OpenedType DEF Heard, Connection
  <2>1. ASSUME NEW e \in Endpoint, DiscardPacket(e)
        PROVE  (Synthetic /\ Backdating)'
    <3>1. e \in leaving => Opened(e).last <= 1 \/ Opened(e).last + ClientTimeout < now
      BY DEF Backdating, Opened
    <3> DEFINE o == Opened(e)
    <3>2. /\ o \in Connection /\ conn' = [conn EXCEPT ![e] = o] /\ now' = now
          /\ leaving' = leaving
          /\ o.welcomed /\ ~o.initialized => o.pos = Origin
      BY <2>0, <2>1 DEF DiscardPacket
    <3> HIDE DEF o
    <3> QED
      BY <3>1, <3>2, TableStep DEF o
  <2>2. ASSUME NEW e \in Endpoint,
               /\ conn' = [conn EXCEPT ![e] = Heard(e)]
               /\ leaving' = leaving \ {e}
               /\ now' = now
        PROVE  (Synthetic /\ Backdating)'
    <3> DEFINE h == Heard(e)
    <3>1. /\ h \in Connection /\ conn' = [conn EXCEPT ![e] = h]
          /\ h.welcomed /\ ~h.initialized => h.pos = Origin
      BY <2>0, <2>2
    <3> HIDE DEF h
    <3> QED
      BY <2>2, <3>1, TableStep
  <2>3. ASSUME NEW e \in Endpoint, NEW c \in Connection,
               /\ conn' = [conn EXCEPT ![e] = c]
               /\ leaving' = leaving \ {e}
               /\ now' = now
               /\ c.initialized \/ c.pos = Origin
        PROVE  (Synthetic /\ Backdating)'
    BY <2>3, TableStep
  <2>4. ASSUME NEW e \in Endpoint, NEW token \in 0..issued, HelloResume(e, token)
        PROVE  (Synthetic /\ Backdating)'
    <3>1. PICK r \in Matching(token) :
            conn' = [conn EXCEPT ![e] = Seat(resumes[r].playerId,
                                 resumes[r].token, resumes[r].pos, TRUE)]
      BY <2>4 DEF HelloResume
    <3> DEFINE c == Seat(resumes[r].playerId, resumes[r].token, resumes[r].pos, TRUE)
    <3>2. resumes[r] \in ResumeRecord
      BY DEF Matching, TypeOK
    <3>3. c \in Connection /\ c.initialized
      BY <3>2, SeatType DEF ResumeRecord, TypeOK, Seat
    <3> HIDE DEF c
    <3> QED
      BY <2>3, <2>4, <3>1, <3>3 DEF HelloResume, c
  <2>5. ASSUME NEW e \in Endpoint, NEW token \in 0..issued, HelloNew(e, token)
        PROVE  (Synthetic /\ Backdating)'
    <3>1. PICK a \in Allocation :
            conn' = [conn EXCEPT ![e] = Seat(a.id, issued + 1, Origin, FALSE)]
      BY <2>5 DEF HelloNew
    <3> DEFINE c == Seat(a.id, issued + 1, Origin, FALSE)
    <3>2. issued + 1 \in Token /\ Origin \in Where
      BY <2>5 DEF HelloNew, TypeOK, Token, Where
    <3>3. c \in Connection /\ c.pos = Origin
      BY <3>2, SeatType, AllocationType DEF TypeOK, Seat
    <3> HIDE DEF c
    <3> QED
      BY <2>3, <2>5, <3>1, <3>3 DEF HelloNew, c
  <2>6. ASSUME NEW e \in Endpoint, NEW id \in PlayerId, NEW p \in Place,
               ReceivePlayerState(e, id, p)
        PROVE  (Synthetic /\ Backdating)'
    <3> DEFINE c == Seat(conn[e].playerId, conn[e].token, p, TRUE)
    <3>1. conn[e] \in Connection
      BY <2>6 DEF ReceivePlayerState, Acceptable, Welcomed, TypeOK
    <3>2. c \in Connection /\ c.initialized
      BY <3>1, SeatType DEF Connection, Where, TypeOK, Seat
    <3>3. conn' = [conn EXCEPT ![e] = c]
      BY <2>6 DEF ReceivePlayerState
    <3> HIDE DEF c
    <3> QED
      BY <2>3, <2>6, <3>2, <3>3 DEF ReceivePlayerState
  <2>7. ASSUME NEW e \in Endpoint, ReceiveGoodbye(e)
        PROVE  (Synthetic /\ Backdating)'
    <3> DEFINE o == Opened(e)
               g == [o EXCEPT !.last = Backdated]
    <3>1. /\ Backdated \in 0..MaxTime
          /\ Backdated <= 1 \/ Backdated + ClientTimeout < now
      BY DEF Backdated, TypeOK
    <3>2. o \in Connection /\ (o.welcomed /\ ~o.initialized => o.pos = Origin)
      BY <2>0
    <3> HIDE DEF o
    <3>3. /\ g \in Connection /\ g.last = Backdated /\ g.welcomed = o.welcomed
          /\ g.initialized = o.initialized /\ g.pos = o.pos
      BY <3>1, <3>2 DEF Connection
    <3>4. conn' = [conn EXCEPT ![e] = g] /\ now' = now /\ leaving' = leaving \cup {e}
      BY <2>7 DEF ReceiveGoodbye, o
    <3> HIDE DEF g
    <3> QED
      BY <3>1, <3>2, <3>3, <3>4, TableStep
  <2>8. ASSUME NEW gap \in 0..MaxGap, EndTick(gap)
        PROVE  (Synthetic /\ Backdating)'
    <3>1. /\ now' = now + gap /\ now \in Nat /\ gap \in Nat
          /\ leaving' = {e \in leaving : ~Silent(e)}
          /\ \A e \in Endpoint : conn'[e] = IF Silent(e) THEN NoOne ELSE conn[e]
      BY <2>8 DEF EndTick, TypeOK
    <3>2. Synthetic'
      BY <3>1 DEF Synthetic, Welcomed
    <3>3. \A e \in leaving' : e \in Endpoint /\ e \in leaving /\ conn'[e] = conn[e]
      BY <3>1 DEF TypeOK
    <3>4. \A e \in leaving' : conn[e].last \in Nat
      BY <3>3 DEF Backdating, TypeOK, Connection
    <3> QED
      BY <3>1, <3>2, <3>3, <3>4 DEF Backdating
  <2>9. CASE UNCHANGED vars
    BY <2>9 DEF vars, Synthetic, Backdating, Welcomed
  <2> QED
    BY <2>1, <2>2, <2>4, <2>5, <2>6, <2>7, <2>8, <2>9
    DEF Next, ReceiveOther, HelloAgain, RejectPlayerState
<1> QED
  BY <1>1, <1>2, ServerTypeCorrect, PTL DEF Spec

-----------------------------------------------------------------------------
\* A step may rename nobody: what a session becomes.
Heir(s, t) ==
    /\ s.token = t.token
    /\ s.playerId = t.playerId
    /\ \/ s.pos = t.pos
       \/ s.pos = Origin
       \/ Distance(s.pos, t.pos) <= MaxStep

\* Every session after a step is the heir of one before it, or is new.
Descent ==
    \A t \in Sessions' : \/ \E s \in Sessions : Heir(s, t)
                         \/ t.token = issued + 1

LEMMA SameLine == ASSUME NEW s PROVE s = s => Heir(s, s)
  BY DEF Heir

\* Where resumes_ and every identity stay, only a place may change, of one
\* endpoint and by the window.
LEMMA DescentQuiet ==
    ASSUME Quiet,
           \A e \in Endpoint : Welcomed(e) =>
               \/ conn'[e].pos = conn[e].pos
               \/ conn[e].pos = Origin
               \/ Distance(conn[e].pos, conn'[e].pos) <= MaxStep
    PROVE  Descent
<1> SUFFICES ASSUME NEW t \in Sessions' PROVE \E s \in Sessions : Heir(s, t)
  BY DEF Descent
<1>1. CASE \E e \in Endpoint : Welcomed(e)' /\ t = Live(e)'
  <2>1. PICK e \in Endpoint : Welcomed(e)' /\ t = Live(e)'
    BY <1>1
  <2>2. Welcomed(e) /\ Live(e) \in Sessions
    BY <2>1, SessionsAre DEF Quiet
  <2>3. Heir(Live(e), t)
    BY <2>1, <2>2 DEF Heir, Live, Quiet
  <2> QED
    BY <2>2, <2>3
<1>2. CASE \E e \in Endpoint : resumes'[e] # NoOne /\ t = Kept(e)'
  <2>1. PICK e \in Endpoint : resumes'[e] # NoOne /\ t = Kept(e)'
    BY <1>2
  <2>2. t = Kept(e) /\ t \in Sessions
    BY <2>1, SessionsAre DEF Quiet, Kept
  <2> QED
    BY <2>2, SameLine
<1> QED
  BY <1>1, <1>2, SessionsAre

\* The places of the quiet actions.
LEMMA QuietPlaces ==
    ASSUME TypeOK, Synthetic, NEW e \in Endpoint,
           \/ DiscardPacket(e) \/ ReceiveOther(e) \/ HelloAgain(e)
           \/ ReceiveGoodbye(e)
           \/ \E id \in PlayerId, p \in Place :
                 ReceivePlayerState(e, id, p) \/ RejectPlayerState(e, id, p),
           NEW f \in Endpoint, Welcomed(f)
    PROVE  \/ conn'[f].pos = conn[f].pos
           \/ conn[f].pos = Origin
           \/ Distance(conn[f].pos, conn'[f].pos) <= MaxStep
<1>1. conn[f] \in Connection /\ Opened(f) = conn[f]
  BY DEF Welcomed, Opened, TypeOK
<1>2. CASE f # e
  <2>1. conn'[f] = conn[f]
    BY <1>2 DEF TypeOK, DiscardPacket, ReceiveOther, HelloAgain, ReceiveGoodbye,
                ReceivePlayerState, RejectPlayerState
  <2> QED
    BY <2>1
<1>3. CASE f = e
  <2>1. CASE ~\E id \in PlayerId, p \in Place : ReceivePlayerState(e, id, p)
    <3>1. conn'[e] = Opened(e) \/ conn'[e] = Heard(e)
          \/ conn'[e] = [Opened(e) EXCEPT !.last = Backdated]
      BY <2>1 DEF TypeOK, DiscardPacket, ReceiveOther, HelloAgain, ReceiveGoodbye,
                  RejectPlayerState
    <3> QED
      BY <1>1, <1>3, <3>1 DEF Heard, Connection
  <2>2. ASSUME NEW id \in PlayerId, NEW p \in Place, ReceivePlayerState(e, id, p)
        PROVE  \/ conn[f].pos = Origin
               \/ Distance(conn[f].pos, conn'[f].pos) <= MaxStep
    <3>1. conn'[e].pos = p
      BY <2>2 DEF ReceivePlayerState, Seat, TypeOK
    <3>2. ~conn[e].initialized \/ Distance(conn[e].pos, p) <= MaxStep
      BY <2>2 DEF ReceivePlayerState, Acceptable
    <3> QED
      BY <1>3, <3>1, <3>2 DEF Synthetic
  <2> QED
    BY <2>1, <2>2
<1> QED
  BY <1>2, <1>3

\* A resume hands a record over as it is, from whichever endpoint left it.
LEMMA DescentResume ==
    ASSUME TypeOK, NEW e \in Endpoint, NEW token \in 0..issued,
           HelloResume(e, token)
    PROVE  Descent
<1>1. PICK r \in Matching(token) :
         /\ conn' = [conn EXCEPT ![e] = Seat(resumes[r].playerId,
                              resumes[r].token, resumes[r].pos, TRUE)]
         /\ resumes' = [resumes EXCEPT ![r] = NoOne]
  BY DEF HelloResume
<1>2. r \in Endpoint /\ resumes[r] # NoOne
  BY DEF Matching
<1>3. /\ conn'[e] = Seat(resumes[r].playerId, resumes[r].token, resumes[r].pos, TRUE)
      /\ \A f \in Endpoint : f # e => conn'[f] = conn[f]
      /\ \A f \in Endpoint : resumes'[f] # NoOne => resumes'[f] = resumes[f]
  BY <1>1, <1>2 DEF TypeOK
<1>4. Kept(r) \in Sessions /\ Live(e)' = Kept(r)
  BY <1>2, <1>3, SessionsAre DEF Live, Kept, Seat
<1>5. ASSUME NEW t \in Sessions' PROVE t \in Sessions
  <2>1. ASSUME NEW f \in Endpoint, f # e, Welcomed(f)', t = Live(f)'
        PROVE  Welcomed(f) /\ t = Live(f)
    BY <1>3, <2>1 DEF Welcomed, Live
  <2>2. ASSUME NEW f \in Endpoint, resumes'[f] # NoOne, t = Kept(f)'
        PROVE  resumes[f] # NoOne /\ t = Kept(f)
    <3>1. resumes'[f] = resumes[f]
      BY <1>3, <2>2
    <3>2. Kept(f)' = Kept(f)
      BY <3>1 DEF Kept
    <3> QED
      BY <2>2, <3>1, <3>2
  <2> QED
    BY <1>4, <2>1, <2>2, SessionsAre
<1> QED
  BY <1>5, SameLine DEF Descent

\* A new player brings a new token and touches nobody else.
LEMMA DescentNew ==
    ASSUME TypeOK, NEW e \in Endpoint, NEW token \in 0..issued, HelloNew(e, token)
    PROVE  Descent
<1>1. PICK a \in Allocation :
         conn' = [conn EXCEPT ![e] = Seat(a.id, issued + 1, Origin, FALSE)]
  BY DEF HelloNew
<1>2. /\ conn'[e].token = issued + 1
      /\ \A f \in Endpoint : f # e => conn'[f] = conn[f]
      /\ resumes' = resumes
  BY <1>1 DEF TypeOK, Seat, HelloNew
<1> SUFFICES ASSUME NEW t \in Sessions', t.token # issued + 1 PROVE t \in Sessions
  BY SameLine DEF Descent
<1>3. ASSUME NEW f \in Endpoint, Welcomed(f)', t = Live(f)'
      PROVE  Welcomed(f) /\ t = Live(f)
  BY <1>2, <1>3 DEF Welcomed, Live
<1>4. ASSUME NEW f \in Endpoint, resumes'[f] # NoOne, t = Kept(f)'
      PROVE  resumes[f] # NoOne /\ t = Kept(f)
  BY <1>2, <1>4 DEF Kept
<1> QED
  BY <1>3, <1>4, SessionsAre

\* prune turns a connection into a record of the same player and place.
LEMMA PruneMoves ==
    ASSUME NEW gap \in 0..MaxGap, EndTick(gap), NEW e \in Endpoint
    PROVE  /\ Welcomed(e)' => Welcomed(e) /\ ~Silent(e) /\ conn'[e] = conn[e]
           /\ ~Silent(e) => conn'[e] = conn[e]
           /\ resumes'[e] # NoOne =>
                 \/ Welcomed(e) /\ Silent(e) /\ Kept(e)' = Live(e)
                 \/ resumes[e] # NoOne /\ Kept(e)' = Kept(e)
<1>1. conn'[e] = IF Silent(e) THEN NoOne ELSE conn[e]
  BY DEF EndTick
<1>2. ASSUME resumes'[e] # NoOne
      PROVE  \/ Welcomed(e) /\ Silent(e) /\ Kept(e)' = Live(e)
             \/ resumes[e] # NoOne /\ Kept(e)' = Kept(e)
  <2>1. resumes'[e] = Recorded(e)
    BY <1>2 DEF EndTick
  <2>2. CASE Silent(e) /\ conn[e].welcomed
    BY <2>1, <2>2 DEF Recorded, Silent, Welcomed, Kept, Live
  <2>3. CASE ~(Silent(e) /\ conn[e].welcomed)
    BY <1>2, <2>1, <2>3 DEF Recorded, Kept
  <2> QED
    BY <2>2, <2>3
<1> QED
  BY <1>1, <1>2 DEF Welcomed

LEMMA DescentPrune ==
    ASSUME NEW gap \in 0..MaxGap, EndTick(gap) PROVE Descent
<1> SUFFICES ASSUME NEW t \in Sessions' PROVE t \in Sessions
  BY SameLine DEF Descent
<1>1. ASSUME NEW e \in Endpoint, Welcomed(e)', t = Live(e)' PROVE t \in Sessions
  BY <1>1, PruneMoves, SessionsAre DEF Live
<1>2. ASSUME NEW e \in Endpoint, resumes'[e] # NoOne, t = Kept(e)'
      PROVE  t \in Sessions
  BY <1>2, PruneMoves, SessionsAre
<1> QED
  BY <1>1, <1>2, SessionsAre

(* Nobody is renamed or moved by what the server does with silence, Hellos  *)
(* and resumes: only a state within the window moves a player.              *)
THEOREM NobodyTeleports == Spec => NoTeleport
<1> DEFINE Moves == \A s \in Sessions, t \in Sessions' :
              s.token = t.token =>
                  /\ s.playerId = t.playerId
                  /\ \/ s.pos = t.pos
                     \/ s.pos = Origin
                     \/ Distance(s.pos, t.pos) <= MaxStep
<1>1. TypeOK /\ SessionInv /\ Synthetic /\ [Next]_vars => [Moves]_vars
  <2> SUFFICES ASSUME TypeOK, SessionInv, Synthetic, Next PROVE Moves
    OBVIOUS
  <2>1. Descent
    BY QuietActions, QuietPlaces, DescentQuiet, DescentResume, DescentNew,
       DescentPrune DEF Next
  <2>2. \A s \in Sessions : s.token # issued + 1
    BY SessionsAre, ServerAssumption
    DEF SessionInv, Seated, Live, Kept, TypeOK, Token
  <2> SUFFICES ASSUME NEW s \in Sessions, NEW t \in Sessions', s.token = t.token
               PROVE  Heir(s, t)
    BY DEF Heir
  <2>3. PICK u \in Sessions : Heir(u, t)
    BY <2>1, <2>2 DEF Descent
  <2>4. u = s
    BY <2>3, OneRecord DEF Heir, SessionInv
  <2> QED
    BY <2>3, <2>4
<1>2. Spec => [][Moves]_vars
  BY <1>1, ServerTypeCorrect, SessionInductive, TableInductive, PTL DEF Spec
<1> QED
  BY <1>2 DEF NoTeleport

(* Resuming needs a record whose grace lasts, though prune has not run yet. *)
THEOREM ResumesInTime == Spec => NoLateResume
<1> DEFINE InTime == \A e \in Endpoint, r \in Endpoint :
              (/\ ~Welcomed(e) /\ Welcomed(e)'
               /\ resumes[r] # NoOne
               /\ conn'[e].token = resumes[r].token) => resumes[r].expires >= now
<1>1. TypeOK /\ SessionInv /\ [Next]_vars => [InTime]_vars
  <2> SUFFICES ASSUME TypeOK, SessionInv, Next, NEW f \in Endpoint, NEW q \in Endpoint,
                      ~Welcomed(f), Welcomed(f)', resumes[q] # NoOne,
                      conn'[f].token = resumes[q].token
               PROVE  resumes[q].expires >= now
    OBVIOUS
  <2>1. ~Quiet
    BY DEF Quiet
  <2>2. ASSUME NEW e \in Endpoint, NEW token \in 0..issued, HelloResume(e, token)
        PROVE  resumes[q].expires >= now
    <3>1. PICK r \in Matching(token) :
             conn' = [conn EXCEPT ![e] = Seat(resumes[r].playerId,
                                  resumes[r].token, resumes[r].pos, TRUE)]
      BY <2>2 DEF HelloResume
    <3>2. f = e
      <4>1. f # e => conn'[f] = conn[f]
        BY <3>1 DEF TypeOK
      <4> QED
        BY <4>1 DEF Welcomed
    <3>3. conn'[f].token = resumes[r].token
      BY <3>1, <3>2 DEF TypeOK, Seat
    <3>4. r \in Endpoint /\ resumes[r] # NoOne /\ resumes[r].expires >= now
      BY DEF Matching
    <3>5. q = r
      BY <3>3, <3>4 DEF SessionInv, OneHolder
    <3> QED
      BY <3>4, <3>5
  <2>3. ASSUME NEW e \in Endpoint, NEW token \in 0..issued, HelloNew(e, token)
        PROVE  FALSE
    <3>1. PICK a \in Allocation :
             conn' = [conn EXCEPT ![e] = Seat(a.id, issued + 1, Origin, FALSE)]
      BY <2>3 DEF HelloNew
    <3>2. f = e
      <4>1. f # e => conn'[f] = conn[f]
        BY <3>1 DEF TypeOK
      <4> QED
        BY <4>1 DEF Welcomed
    <3>3. conn'[f].token = issued + 1
      BY <3>1, <3>2 DEF TypeOK, Seat
    <3>4. resumes[q].token \in 1..issued /\ issued \in Nat
      BY ServerAssumption DEF SessionInv, Seated, TypeOK, Token
    <3> QED
      BY <3>3, <3>4
  <2>4. ASSUME NEW gap \in 0..MaxGap, EndTick(gap) PROVE FALSE
    BY <2>4, PruneMoves
  <2> QED
    BY <2>1, <2>2, <2>3, <2>4, QuietActions DEF Next
<1>2. Spec => [][InTime]_vars
  BY <1>1, ServerTypeCorrect, SessionInductive, PTL DEF Spec
<1> QED
  BY <1>2 DEF NoLateResume

(* A session ends with its grace, or when its endpoint needs the record for *)
(* a later one: no datagram of anybody, and no resume, ends one.            *)
THEOREM SessionsSurvive == Spec => SessionSurvives
<1> DEFINE Ending == \A token \in HeldTokens \ HeldTokens' :
              \E e \in Endpoint :
                  /\ resumes[e] # NoOne
                  /\ resumes[e].token = token
                  /\ \/ resumes[e].expires < now
                     \/ Welcomed(e) /\ Silent(e)
<1>1. TypeOK /\ [Next]_vars => [Ending]_vars
  <2> SUFFICES ASSUME TypeOK, Next, NEW token \in HeldTokens, token \notin HeldTokens'
               PROVE  \E e \in Endpoint :
                          /\ resumes[e] # NoOne
                          /\ resumes[e].token = token
                          /\ \/ resumes[e].expires < now
                             \/ Welcomed(e) /\ Silent(e)
    OBVIOUS
  <2>0. PICK h \in Endpoint : \/ Welcomed(h) /\ token = conn[h].token
                              \/ resumes[h] # NoOne /\ token = resumes[h].token
    BY TokensAre
  <2>1. /\ ~(Welcomed(h)' /\ token = conn'[h].token)
        /\ \A f \in Endpoint : ~(resumes'[f] # NoOne /\ token = resumes'[f].token)
        /\ \A f \in Endpoint : ~(Welcomed(f)' /\ token = conn'[f].token)
    BY TokensAre
  <2>2. ~Quiet
    BY <2>0, <2>1 DEF Quiet
  <2>3. ASSUME NEW e \in Endpoint, NEW tok \in 0..issued, HelloResume(e, tok)
        PROVE  FALSE
    <3>1. PICK r \in Matching(tok) :
             /\ conn' = [conn EXCEPT ![e] = Seat(resumes[r].playerId,
                                  resumes[r].token, resumes[r].pos, TRUE)]
             /\ resumes' = [resumes EXCEPT ![r] = NoOne]
      BY <2>3 DEF HelloResume
    <3>2. ~Welcomed(e) /\ r \in Endpoint /\ resumes[r] \in ResumeRecord
      BY <2>3 DEF HelloResume, Matching, TypeOK
    <3> DEFINE s == Seat(resumes[r].playerId, resumes[r].token, resumes[r].pos, TRUE)
    <3>3. s \in Connection /\ s.welcomed /\ s.token = resumes[r].token
      BY <3>2, SeatType DEF ResumeRecord, TypeOK, Seat
    <3> HIDE DEF s
    <3>4. /\ conn'[e] = s
          /\ \A f \in Endpoint : f # e => conn'[f] = conn[f]
          /\ \A f \in Endpoint : f # r => resumes'[f] = resumes[f]
      BY <3>1, <3>2 DEF TypeOK, s
    <3>5. Welcomed(e)'
      BY <3>3, <3>4, NoOneAssumption DEF Welcomed
    <3>6. CASE Welcomed(h) /\ token = conn[h].token
      BY <2>1, <3>2, <3>4, <3>6 DEF Welcomed
    <3>7. CASE resumes[h] # NoOne /\ token = resumes[h].token
      BY <2>1, <3>2, <3>3, <3>4, <3>5, <3>7
    <3> QED
      BY <2>0, <3>6, <3>7
  <2>4. ASSUME NEW e \in Endpoint, NEW tok \in 0..issued, HelloNew(e, tok)
        PROVE  FALSE
    <3>1. /\ ~Welcomed(e) /\ resumes' = resumes
          /\ \A f \in Endpoint : f # e => conn'[f] = conn[f]
      BY <2>4 DEF HelloNew, TypeOK
    <3> QED
      BY <2>0, <2>1, <3>1 DEF Welcomed
  <2>5. ASSUME NEW gap \in 0..MaxGap, EndTick(gap)
        PROVE  /\ resumes[h] # NoOne
               /\ resumes[h].token = token
               /\ resumes[h].expires < now \/ (Welcomed(h) /\ Silent(h))
    <3>1. /\ conn'[h] = IF Silent(h) THEN NoOne ELSE conn[h]
          /\ resumes'[h] = IF Recorded(h) # NoOne /\ Recorded(h).expires < now
                           THEN NoOne ELSE Recorded(h)
      BY <2>5 DEF EndTick
    <3>2. CASE Welcomed(h) /\ Silent(h)
      <4> DEFINE rec == [playerId |-> conn[h].playerId, token |-> conn[h].token,
                         pos |-> conn[h].pos, expires |-> now + ResumeGrace]
      <4>1. Recorded(h) = rec
        BY <3>2 DEF Recorded, Welcomed
      <4>2. rec # NoOne /\ ~(rec.expires < now)
        <5>1. Recorded(h) \in ResumeRecord
          <6>1. conn[h] \in Connection /\ now + ResumeGrace \in 0..(MaxTime + ResumeGrace)
            BY <3>2, ServerAssumption DEF Welcomed, TypeOK
          <6> QED
            BY <4>1, <6>1 DEF Connection, ResumeRecord
        <5> QED
          BY <4>1, <5>1, ServerAssumption, NoOneAssumption DEF TypeOK
      <4>3. resumes'[h] = rec
        BY <3>1, <4>1, <4>2
      <4>4. token # conn[h].token
        BY <2>1, <4>2, <4>3
      <4> QED
        BY <2>0, <3>2, <4>4
    <3>3. CASE Welcomed(h) /\ ~Silent(h)
      <4>1. Recorded(h) = resumes[h] /\ conn'[h] = conn[h]
        BY <3>1, <3>3 DEF Recorded
      <4> QED
        BY <2>0, <2>1, <3>1, <3>3, <4>1 DEF Welcomed
    <3>4. CASE ~Welcomed(h)
      <4>1. Recorded(h) = resumes[h]
        BY <3>4 DEF Recorded, Welcomed, Silent
      <4> QED
        BY <2>0, <2>1, <3>1, <3>4, <4>1
    <3> QED
      BY <3>2, <3>3, <3>4
  <2> QED
    BY <2>2, <2>3, <2>4, <2>5, QuietActions DEF Next
<1>2. Spec => [][Ending]_vars
  BY <1>1, ServerTypeCorrect, PTL DEF Spec
<1> QED
  BY <1>2 DEF SessionSurvives

(* Who says Goodbye and nothing after it is gone at the end of the tick,    *)
(* whenever in the life of the server that is, but for its first instants.  *)
THEOREM GoodbyesArePrompt == Spec => GoodbyePrompt
<1> DEFINE Prompt == \A gap \in 0..MaxGap : EndTick(gap) =>
              \A e \in leaving :
                  now > ClientTimeout + 1 /\ conn[e].last # 0 => conn'[e] = NoOne
<1>1. TypeOK /\ Backdating => Prompt
  <2> SUFFICES ASSUME TypeOK, Backdating, NEW gap \in 0..MaxGap, EndTick(gap),
                      NEW e \in leaving, now > ClientTimeout + 1, conn[e].last # 0
               PROVE  conn'[e] = NoOne
    OBVIOUS
  <2>1. e \in Endpoint /\ conn[e] \in Connection
    BY DEF TypeOK, Backdating
  <2>2. conn[e].last \in Nat /\ now \in Nat
    BY <2>1 DEF Connection, TypeOK
  <2>3. now - conn[e].last > ClientTimeout
    BY <2>2, ServerAssumption DEF Backdating
  <2>4. Silent(e)
    BY <2>3 DEF Silent, Backdating
  <2> QED
    BY <2>1, <2>4 DEF EndTick
<1>2. Spec => [][Prompt]_vars
  BY <1>1, ServerTypeCorrect, TableInductive, PTL DEF Spec
<1> QED
  BY <1>2 DEF GoodbyePrompt

=============================================================================
