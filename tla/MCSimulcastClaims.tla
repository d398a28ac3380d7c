-------------------------- MODULE MCSimulcastClaims --------------------------
(* What the code says of simulcast dedup and does not keep. *)
EXTENDS MCSimulcast

\* YouTube is preferred, and a blacklist rule matches its broadcast.
PreferredBlocked == {Case(ForYouTube, {}, Both("auto", "blocked"), {})}

\* src/src/simulcast.rs:16-18 says of the other instances that each "takes over
\* if the preferred one is live but never gets a capture going".
StandbyTakesOver ==
  \A i \in Instances :
    [](Capable(i)) /\ StaysOn(i) /\ [](\A j \in Instances \ {i} : slot[j] # "running")
      => <>(slot[i] = "running")
=============================================================================
