----------------------------- MODULE MCSimulcast -----------------------------
(* Small instances of Simulcast for TLC. *)
EXTENDS Simulcast, TLC

CONSTANTS twitch, youtube

TwoInstances == {twitch, youtube}
OnlyTwitch == {twitch}
OnlyYoutube == {youtube}

Both(t, y) == (twitch :> t) @@ (youtube :> y)
Prefer(p) == [pref |-> p, adFreePref |-> None]
AdFree(p, q) == [pref |-> p, adFreePref |-> q]

Case(policies, free, stances, broken) ==
  [policy |-> policies, adFree |-> free, stance |-> stances, broken |-> broken]

\* YouTube is preferred, and it works, fails, may not record or is switched off.
ForYouTube == Both(Prefer(youtube), Prefer(youtube))
\* Twitch is, while it has no ad breaks.
UnlessAdFree == Both(AdFree(youtube, twitch), AdFree(youtube, twitch))

AgreeingGivens ==
  {Case(ForYouTube, {}, Both("auto", "auto"), b) : b \in SUBSET {twitch, youtube} \ {{twitch, youtube}}}
  \cup {Case(ForYouTube, {}, Both("auto", s), {}) : s \in {"off", "dormant"}}
  \cup {Case(UnlessAdFree, {twitch}, Both(s, "auto"), {}) : s \in {"auto", "blocked", "dormant"}}
  \cup {Case(UnlessAdFree, {twitch}, Both("auto", "auto"), {twitch})}

\* Overrides that are at odds: each for the other, each for itself.
OddGivens ==
  {Case(Both(Prefer(p), Prefer(q)), {}, Both("auto", "auto"), {}) :
     <<p, q>> \in {<<twitch, youtube>>, <<youtube, twitch>>}}

SomeGivens == AgreeingGivens \cup OddGivens
=============================================================================
