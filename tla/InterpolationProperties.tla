----------------------- MODULE InterpolationProperties -----------------------
(* What RemoteEntityInterpolator promises its renderer. *)
EXTENDS Interpolation

TypeOK ==
    /\ serverTick \in 0..MaxTick
    /\ broadcast \subseteq Snapshot
    /\ buffers \in [Player -> Seq(Sample)]
    /\ \A p \in Player : Len(buffers[p]) <= Capacity

RenderTicks == 0..(MaxTick + Delay + MaxExtrapolation + 2)

SamePlace(r, s) == r.num * s.den = s.num * r.den

(* However snapshots are delayed, repeated or lost, the ticks of a buffer   *)
(* increase strictly, so that lerp never divides by zero and the unsigned   *)
(* differences never wrap.                                                  *)
Ordered ==
    \A p \in Player : \A i \in 1..(Len(buffers[p]) - 1) :
        buffers[p][i].tick < buffers[p][i + 1].tick

(* The rendered path goes through every sample it is made of: at the tick   *)
(* of a sample the player is where the server said.                         *)
ThroughSamples ==
    \A p \in Player, r \in RenderTicks : \A i \in DOMAIN buffers[p] :
        buffers[p][i].tick = Target(r) =>
            SamePlace(Rendered(buffers[p], r), Exactly(buffers[p][i]))

Distance(x, y) == IF x < y THEN y - x ELSE x - y

\* The samples of a buffer never move faster than pace, nor say that they do.
Steady(buffer, pace) ==
    /\ \A i \in 1..Len(buffer) : Distance(0, buffer[i].state.vel) <= pace
    /\ \A i \in 1..(Len(buffer) - 1) :
          Distance(buffer[i].state.pos, buffer[i + 1].state.pos)
              <= pace * (buffer[i + 1].tick - buffer[i].tick)

Paces == {Distance(x, y) : x \in Place, y \in Place} \cup {Distance(0, s) : s \in Speed}

\* r and s are no further apart than far: |r.num/r.den - s.num/s.den| <= far.
Within(r, s, far) == Distance(r.num * s.den, s.num * r.den) <= far * r.den * s.den

\* The last tick that is extrapolated to; the next one shows the oldest sample.
LastExtrapolated(buffer, target) ==
    Len(buffer) > 1 /\ target = buffer[Len(buffer)].tick + MaxExtrapolation

(* Over the ends of the four branches of sample() nobody is seen to leap:   *)
(* from a tick to the next a player goes no further than the fastest of his *)
(* samples does, except once.  docs/networking.md:38 limits extrapolation   *)
(* without a word on what follows it: past the limit he is back at the      *)
(* oldest sample, as far off as he can have come since, and stays there.    *)
NoLeap ==
    \A p \in Player, r \in RenderTicks, pace \in Paces :
        LET buffer == buffers[p]
            oldest == buffer[1].tick
            latest == buffer[Len(buffer)].tick
        IN  buffer # <<>> /\ Steady(buffer, pace) =>
                Within(Rendered(buffer, r), Rendered(buffer, r + 1),
                       IF LastExtrapolated(buffer, Target(r))
                       THEN pace * (latest - oldest + MaxExtrapolation)
                       ELSE pace)

(* A snapshot, new or late, does not rewrite the past: a tick that lay      *)
(* between two samples and still does is rendered as before.                *)
PastStable ==
    [][\A p \in Player, r \in RenderTicks :
          (/\ Len(buffers[p]) > 1 /\ Len(buffers[p]') > 1
           /\ buffers[p]'[1].tick <= Target(r)
           /\ Target(r) <= buffers[p][Len(buffers[p])].tick) =>
              SamePlace(Rendered(buffers[p], r), Rendered(buffers[p]', r))]_vars
=============================================================================
