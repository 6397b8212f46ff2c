---------------------------- MODULE RankEngine ----------------------------
(***************************************************************************)
(* The tree of sponsors, and the ranks: who has how many stars, given      *)
(* every member's retained principal.  The program starts from the stars   *)
(* it has stored and applies the rules to everybody at once, until nothing *)
(* changes, but at most Passes times.                                      *)
(*                                                                         *)
(* ms is the set of the members registered so far; stars and capital are   *)
(* functions on it.                                                        *)
(***************************************************************************)
EXTENDS Integers, FiniteSets, Sequences

CONSTANTS
    SponsorOf,      \* per user, the user above, or Nobody
    Nobody,
    Ranks,          \* a sequence: team, directs, directStar, reward
    Passes,
    Qualifying      \* the principal that counts

ASSUME RankAssumption ==
    /\ \A u \in DOMAIN SponsorOf : SponsorOf[u] \in DOMAIN SponsorOf \cup {Nobody}
    /\ Nobody \notin DOMAIN SponsorOf
    /\ Ranks \in Seq([team : Nat \ {0}, directs : Nat, directStar : Nat, reward : Nat])
    /\ Passes \in Nat /\ Qualifying \in Nat \ {0}

Depth == Cardinality(DOMAIN SponsorOf)

\* the users above each user, nearest first; the chain ends with Nobody
Chain ==
    [u \in DOMAIN SponsorOf |->
        LET c[k \in 0 .. Depth] ==
                IF k = 0 THEN u ELSE IF c[k - 1] = Nobody THEN Nobody ELSE SponsorOf[c[k - 1]]
        IN c]

Above(u, k) == IF k <= Depth THEN Chain[u][k] ELSE Nobody

Below ==
    [u \in DOMAIN SponsorOf |->
        {v \in DOMAIN SponsorOf \ {u} : \E k \in 1 .. Depth : Chain[v][k] = u}]

\* getUniqueDownline
Downline(ms, u) == Below[u] \cap ms

isCapitalQualified(capital) == capital >= Qualifying

Team(ms, u, capital) ==
    Cardinality({v \in Downline(ms, u) : isCapitalQualified(capital[v])})

DirectRanks(ms, u, stars, star) ==
    Cardinality({v \in ms \ {u} : SponsorOf[v] = u /\ stars[v] >= star})

Meets(ms, u, n, capital, stars) ==
    /\ Team(ms, u, capital) >= Ranks[n].team
    /\ DirectRanks(ms, u, stars, Ranks[n].directStar) >= Ranks[n].directs

\* the last rank whose conditions hold, whatever the ranks below it
highestRank(ms, u, capital, stars) ==
    CHOOSE n \in 0 .. Len(Ranks) :
        /\ n > 0 => Meets(ms, u, n, capital, stars)
        /\ \A k \in DOMAIN Ranks : k > n => ~Meets(ms, u, k, capital, stars)

Pass(ms, capital, stars) == [u \in ms |-> highestRank(ms, u, capital, stars)]

\* mutant: everybody is looked at once
evaluateOnce(ms, capital, stars) == Pass(ms, capital, stars)

\* mutant: a rank once reached is kept
evaluateUpwards(ms, capital, stars) ==
    [u \in ms |-> LET n == highestRank(ms, u, capital, stars)
                  IN IF n > stars[u] THEN n ELSE stars[u]]

\* the passes of the loop, and the look at everybody behind it
evaluateRankNetwork(ms, capital, stars) ==
    LET after[k \in 0 .. Passes] ==
            IF k = 0 THEN stars ELSE Pass(ms, capital, after[k - 1])
    IN Pass(ms, capital, after[Passes])

\* every rank up to the present one that was never rewarded
newRewardRanks(star, rewarded) == (1 .. star) \ rewarded
=============================================================================
